---------------------------- MODULE Spec2Model ----------------------------
(***************************************************************************)
(* Model of the Backpack/Lighter cross-venue arbitrage bot.                *)
(*                                                                         *)
(* Venue A is Backpack, venue B is Lighter.  Prices, quantities and        *)
(* positions are Decimal values in the program; they are modelled as       *)
(* integers (ticks / lots), on which Decimal addition, subtraction and     *)
(* comparison are exact.  Python's None is the empty tuple << >> and a     *)
(* present value x is the one-element tuple << x >>.                       *)
(*                                                                         *)
(* The specifications, all over the same variables:                        *)
(*   Spec       the trading loop (trading_loop's while loop) fed by the    *)
(*              Backpack depth stream, each leg returning a result,        *)
(*   SpecCoord  _execute_arbitrage invoked for any direction with every    *)
(*              kind of leg result the coordinator distinguishes,          *)
(*   SpecExec   _execute_arbitrage with the two venue clients'             *)
(*              place_market_order as written,                             *)
(*   SpecQuote  the trading loop while Backpack's stream may carry a zero  *)
(*              price,                                                     *)
(*   SpecLimit  the trading loop under a position limit,                   *)
(*   SpecQuery  one call of a query wrapped by query_retry,                *)
(*   SpecFeed   the two feeds' connect() tasks from their creation to the  *)
(*              end of the process (SpecFeedFair: sleeps return).          *)
(*   SpecBook   the two order-book handlers, message by message,           *)
(*   SpecRun    the whole run: startup, trading loop, cleanup and exit     *)
(*              (SpecRunFair: order calls return, the loop test is run),   *)
(*   SpecLoop   the trading loop with errors in ticks, a stop request and  *)
(*              both feeds losing and regaining their connections,         *)
(*   SpecOutage the trading loop on the quotes of a Backpack feed that     *)
(*              loses and regains its connection,                          *)
(*   SpecRead   the order-book handlers and the loop's reads of the pairs  *)
(*              they publish,                                              *)
(*   SpecDepth  the published pairs against the depth the messages         *)
(*              describe, sizes included,                                  *)
(*   SpecReady  quotes, depth and readiness while both feeds lose and      *)
(*              regain their connections,                                  *)
(*   SpecRefresh  refresh_positions and its two get_position calls,        *)
(*   SpecPing   "ping" messages among the messages of both feeds.          *)
(***************************************************************************)
EXTENDS Integers, Sequences, FiniteSets, TLC

(***************************************************************************)
(* Bounds of the model.                                                    *)
(***************************************************************************)
MaxPrice == 2
MaxThreshold == 1
MaxQty == 2
MaxInitPos == 1
MaxTrades == 2
MaxCap == 2
MaxRefreshed == 3
MaxFails == 6
MaxLateAttempts == 1
MaxPings == 2
MaxTickErrors == 1

Prices == 1..MaxPrice
Thresholds == 0..MaxThreshold
Quantities == 1..MaxQty
InitPositions == (0 - MaxInitPos)..MaxInitPos
Caps == 0..MaxCap
RefreshedPositions == (0 - MaxRefreshed)..MaxRefreshed

None == << >>
Some(x) == << x >>
Val(o) == o[1]

\* Python truthiness of an Optional[Decimal]: None and Decimal('0') are falsy.
Truthy(o) == o # None /\ Val(o) # 0

Abs(x) == IF x < 0 THEN 0 - x ELSE x

VARIABLES
    \* BackpackLighterArb configuration (set by __init__, never reassigned)
    order_quantity, long_threshold, short_threshold, max_position,
    \* BackpackLighterArb state
    stop_flag, total_trades, successful_trades, failed_trades,
    \* trading_loop: position of the task and the locals of the last tick
    pc, long_spread, short_spread, signal,
    \* the _can_trade call of the last tick: direction asked, cached Backpack
    \* position read, answer
    can_trade_call,
    \* ws_manager.best_bid / best_ask / order_book_ready of each venue
    bp_ws, lt_ws,
    \* OrderBookManager fields
    obm,
    \* PositionTracker cache
    backpack_position, lighter_position,
    \* _execute_arbitrage locals
    direction, bp_side, lt_side, bp_result, lt_result,
    \* position of each leg coroutine inside place_market_order
    bp_leg, lt_leg,
    \* the venues: orders received during the current execution, the last
    \* response each venue gave, whether Lighter's accepted order filled,
    \* and the position each venue really holds
    bp_orders, lt_orders, bp_resp, lt_resp, lt_fill, venue_position,
    \* bookkeeping of the verification: the state at the start of the
    \* current execution, the positions after the startup refresh, the
    \* joint outcome of the last execution, jointly successful executions
    \* per direction, executions awaited right now, executions invoked by
    \* the last tick
    pre, pos0, outcome, n_long_ok, n_short_ok, in_flight, tick_execs,
    \* one call of a query wrapped by query_retry: its configuration, the
    \* position of the retry loop, the outcome of every invocation of the
    \* wrapped function, the sleeps taken, what the caller got
    query,
    \* each venue's ws_manager.connect() task
    bp_feed, lt_feed,
    \* run() and main(): the phases passed, _cleanup_done, what the shutdown
    \* path did, the exit code, and the bookkeeping of the last tick
    run,
    \* LighterWebSocketManager.order_book and snapshot_loaded
    lt_book,
    \* bookkeeping of the verification: the depth that the level messages of
    \* Backpack's stream describe (BackpackWebSocketManager keeps none)
    bp_depth,
    \* bookkeeping of the verification: the last order-book update a feed
    \* handled, what it yielded and the pair exposed before it
    last_update

cfg_vars == << order_quantity, long_threshold, short_threshold, max_position >>
count_vars == << total_trades, successful_trades, failed_trades >>
tick_vars == << long_spread, short_spread, signal, obm, tick_execs, can_trade_call >>
feed_vars == << bp_ws, lt_ws >>
ledger_vars == << backpack_position, lighter_position >>
exec_vars == << direction, bp_side, lt_side, bp_result, lt_result, bp_leg, lt_leg >>
venue_vars == << bp_orders, lt_orders, bp_resp, lt_resp, lt_fill, venue_position >>
hist_vars == << pre, pos0, outcome, n_long_ok, n_short_ok, in_flight >>
svc_vars == << query, bp_feed, lt_feed >>
orch_vars == << run, lt_book, bp_depth, last_update >>

vars == << cfg_vars, count_vars, tick_vars, feed_vars, ledger_vars, exec_vars,
           venue_vars, hist_vars, svc_vars, orch_vars, stop_flag, pc >>


(***************************************************************************)
(* OrderBookManager (strategy/order_book_manager.py).                      *)
(***************************************************************************)
NewOrderBookManager ==
    [backpack_best_bid |-> None, backpack_best_ask |-> None, backpack_ready |-> FALSE,
     lighter_best_bid |-> None, lighter_best_ask |-> None, lighter_ready |-> FALSE]

update_backpack_bbo(o, best_bid, best_ask) ==
    [o EXCEPT !.backpack_best_bid = best_bid, !.backpack_best_ask = best_ask,
              !.backpack_ready = TRUE]

update_lighter_bbo(o, best_bid, best_ask) ==
    [o EXCEPT !.lighter_best_bid = best_bid, !.lighter_best_ask = best_ask,
              !.lighter_ready = TRUE]

is_ready(o) == o.backpack_ready /\ o.lighter_ready

\* A manager that is not ready answers with zero spreads.
SpreadZeroWhenAbsent(o) ==
    IF ~(o.backpack_ready /\ o.lighter_ready) THEN << Some(0), Some(0) >>
    ELSE << Some(Val(o.lighter_best_bid) - Val(o.backpack_best_ask)),
            Some(Val(o.backpack_best_bid) - Val(o.lighter_best_ask)) >>

\* get_spread: << long_backpack_spread, short_backpack_spread >>
get_spread(o) ==
    IF ~is_ready(o) THEN << None, None >>
    ELSE IF Truthy(o.lighter_best_bid) /\ Truthy(o.backpack_best_ask)
            /\ Truthy(o.backpack_best_bid) /\ Truthy(o.lighter_best_ask)
         THEN << Some(Val(o.lighter_best_bid) - Val(o.backpack_best_ask)),
                 Some(Val(o.backpack_best_bid) - Val(o.lighter_best_ask)) >>
         ELSE << None, None >>

\* A copy made once, when the manager has no Backpack pair yet.
UpdateBackpackOnce(o, w) ==
    IF ~o.backpack_ready /\ Truthy(w.best_bid) /\ Truthy(w.best_ask)
    THEN update_backpack_bbo(o, w.best_bid, w.best_ask) ELSE o

\* BackpackLighterArb._update_order_books: each venue's pair is copied only
\* when both of its sides are truthy.
UpdateBackpackSide(o, w) ==
    IF Truthy(w.best_bid) /\ Truthy(w.best_ask)
    THEN update_backpack_bbo(o, w.best_bid, w.best_ask) ELSE o

UpdateLighterSide(o, w) ==
    IF Truthy(w.best_bid) /\ Truthy(w.best_ask)
    THEN update_lighter_bbo(o, w.best_bid, w.best_ask) ELSE o

update_order_books(o, bw, lw) == UpdateLighterSide(UpdateBackpackSide(o, bw), lw)

(***************************************************************************)
(* trading_loop: the signal of a tick and the position-limit predicate.    *)
(***************************************************************************)
\* A threshold test that also fires on equality.
SignalAtLeast(ls, ss, lth, sth) ==
    IF Truthy(ls) /\ Val(ls) >= lth THEN "LONG_BACKPACK"
    ELSE IF Truthy(ss) /\ Val(ss) >= sth THEN "SHORT_BACKPACK"
    ELSE "NONE"

\* Two independent ifs: the short test, evaluated last, overrides the long one.
SignalShortLast(ls, ss, lth, sth) ==
    IF Truthy(ss) /\ Val(ss) > sth THEN "SHORT_BACKPACK"
    ELSE IF Truthy(ls) /\ Val(ls) > lth THEN "LONG_BACKPACK"
    ELSE "NONE"

Signal(ls, ss, lth, sth) ==
    IF Truthy(ls) /\ Val(ls) > lth THEN "LONG_BACKPACK"
    ELSE IF Truthy(ss) /\ Val(ss) > sth THEN "SHORT_BACKPACK"
    ELSE "NONE"

\* A predicate that also permits any trade toward zero.
CanTradeReducing(d, maxp, bp_pos, q) ==
    IF maxp = 0 THEN TRUE
    ELSE IF d = "LONG_BACKPACK" THEN bp_pos < 0 \/ bp_pos + q <= maxp
    ELSE bp_pos > 0 \/ Abs(bp_pos - q) <= maxp

can_trade(d, maxp, bp_pos, q) ==
    IF maxp = 0 THEN TRUE
    ELSE IF d = "LONG_BACKPACK" THEN bp_pos + q <= maxp
    ELSE Abs(bp_pos - q) <= maxp

(***************************************************************************)
(* _execute_arbitrage: sides, classification, counters and ledger.         *)
(***************************************************************************)
Directions == {"LONG_BACKPACK", "SHORT_BACKPACK"}

\* The side mapping with the two directions exchanged.
BpSideSwapped(d) == IF d = "LONG_BACKPACK" THEN "sell" ELSE "buy"

BpSide(d) == IF d = "LONG_BACKPACK" THEN "buy" ELSE "sell"

LtSide(d) == IF d = "LONG_BACKPACK" THEN "sell" ELSE "buy"

\* A leg's entry in gather's result list: an OrderResult with success true
\* ("OK") or false ("FAIL"), or the exception the leg raised ("EXC").
LegResults == {"OK", "FAIL", "EXC"}

\* not isinstance(result, Exception) and result.success
LegSuccess(r) == r # "EXC" /\ r = "OK"

JointOutcome(bp_success, lt_success) ==
    IF bp_success /\ lt_success THEN "BOTH_SUCCEEDED"
    ELSE IF lt_success THEN "VENUE_A_FAILED"
    ELSE IF bp_success THEN "VENUE_B_FAILED"
    ELSE "BOTH_FAILED"

\* Both venues are credited with the same sign.
PositionDeltaSameSign(side, q) ==
    IF side = "buy" THEN << q, q >> ELSE << 0 - q, 0 - q >>

\* << delta applied to Backpack, delta applied to Lighter >>
PositionDelta(side, q) ==
    IF side = "buy" THEN << q, 0 - q >> ELSE << 0 - q, q >>

\* The ledger is updated whatever the legs returned.
LedgerAfterAlways(bp_success, lt_success, side, q, bp, lt) ==
    << bp + PositionDelta(side, q)[1], lt + PositionDelta(side, q)[2] >>

\* Each leg that succeeded is recorded on its own.
LedgerAfterPerLeg(bp_success, lt_success, side, q, bp, lt) ==
    << IF bp_success THEN bp + PositionDelta(side, q)[1] ELSE bp,
       IF lt_success THEN lt + PositionDelta(side, q)[2] ELSE lt >>

\* update_backpack_position / update_lighter_position, called back to back
\* (no await in between) only in the bp_success and lt_success branch.
LedgerAfter(bp_success, lt_success, side, q, bp, lt) ==
    IF bp_success /\ lt_success
    THEN << bp + PositionDelta(side, q)[1], lt + PositionDelta(side, q)[2] >>
    ELSE << bp, lt >>

SuccessfulAfter(bp_success, lt_success, n) ==
    IF bp_success /\ lt_success THEN n + 1 ELSE n

\* A failure is counted only when both legs failed.
FailedAfterBothOnly(bp_success, lt_success, n) ==
    IF ~bp_success /\ ~lt_success THEN n + 1 ELSE n

FailedAfter(bp_success, lt_success, n) ==
    IF bp_success /\ lt_success THEN n ELSE n + 1

(***************************************************************************)
(* The venue clients' place_market_order.                                  *)
(***************************************************************************)
\* What account_client.execute_order can give back: nothing, an error
\* object (it has a 'code'), an order with status FILLED, an order with any
\* other status, or an exception.
BpResponses == {"EMPTY", "ERROR", "FILLED", "NEW", "RAISE"}

BackpackOrderSide(side) ==
    IF side = "buy" THEN "Bid" ELSE IF side = "sell" THEN "Ask" ELSE "INVALID"

BackpackResult(resp) == IF resp = "FILLED" THEN "OK" ELSE "FAIL"

\* A failed order is submitted again.
BpLegNextRetry(resp) == IF resp = "FILLED" THEN "done" ELSE "call"

\* Every branch after execute_order returns: the leg is over.
BpLegNext(resp) == "done"

\* What lighter_client.create_order can give back: an error, an accepted
\* transaction (error is None), or an exception.
LtResponses == {"ERROR", "ACCEPTED", "RAISE"}

\* What happened at the venue to an accepted limit order.
LtFills == {"FILLED", "OPEN"}

LighterIsAsk(side) ==
    IF side = "buy" THEN "bid" ELSE IF side = "sell" THEN "ask" ELSE "INVALID"

\* After create_order: an accepted order is followed by sleep(2), anything
\* else ends the leg with a failure result.
LtLegNext(resp) == IF resp = "ACCEPTED" THEN "sleep" ELSE "done"

\* The result built after the sleep: success, status 'FILLED', unconditionally.
LighterResultAfterWait == "OK"

\* The venue's own position after a fill of q on the given side.
VenueAfterFill(p, side, q) == IF side = "buy" THEN p + q ELSE p - q


(***************************************************************************)
(* The Backpack feed's order-book handler: best_bid, best_ask and          *)
(* order_book_ready of its ws_manager.                                     *)
(***************************************************************************)
SetMax(S) == CHOOSE x \in S : \A y \in S : y <= x
SetMin(S) == CHOOSE x \in S : \A y \in S : x <= y

\* A handler that yields to the event loop between its two assignments: the
\* state exposed at that point, the bid of the message stored and its ask not.
BackpackBidBeforeAsk(w, bids, asks) ==
    LET bid == IF bids # {} THEN Some(SetMax(bids)) ELSE w.best_bid
    IN [best_bid |-> bid, best_ask |-> w.best_ask,
        order_book_ready |-> w.order_book_ready]

\* BackpackWebSocketManager._handle_orderbook_update for a depth message
\* whose 'b' and 'a' lists hold the price levels bids and asks.
BackpackBookUpdate(w, bids, asks) ==
    LET bid == IF bids # {} THEN Some(SetMax(bids)) ELSE w.best_bid
        ask == IF asks # {} THEN Some(SetMin(asks)) ELSE w.best_ask
    IN [best_bid |-> bid, best_ask |-> ask,
        order_book_ready |-> w.order_book_ready \/ (Truthy(bid) /\ Truthy(ask))]

\* The sides of the depth messages delivered while trading: no level, or one.
DepthSides == {{}} \cup {{p} : p \in Prices}

\* The same, with the price "0" among the levels a message can carry:
\* Decimal("0") is a value the handler stores and the loop finds falsy.
ZeroDepthSides == {{}} \cup {{p} : p \in 0..MaxPrice}

(***************************************************************************)
(* query_retry (exchanges/base.py): tenacity's retry configured with       *)
(* stop_after_attempt, retry_if_exception_type, a retry_error_callback     *)
(* that returns default_return, and reraise.                               *)
(***************************************************************************)
DefaultMaxAttempts == 5

\* What one invocation of the wrapped query does: it returns a value, or
\* raises an exception of a configured (retryable) type, or raises another.
QueryOutcomes == {"OK", "RETRYABLE", "OTHER"}

\* Every exception is retried.
RetryAnyException(out) == out # "OK"

\* retry_if_exception_type(exception_type)
RetryIf(out) == out = "RETRYABLE"

\* One more attempt than configured.
StopAfterOneMore(attempt_number, max_attempts) == attempt_number > max_attempts

\* stop_after_attempt(max_attempts)
StopAfterAttempt(attempt_number, max_attempts) == attempt_number >= max_attempts

\* What the retry loop does once the stop condition holds.  The loop tests
\* retry_error_callback first, and query_retry always passes one: the call
\* returns the callback's value, default_return, whatever reraise is.
OnExhausted(reraise) == [state |-> "returned", result |-> "DEFAULT"]

NewQuery(max_attempts, reraise) ==
    [max_attempts |-> max_attempts, reraise |-> reraise, state |-> "call",
     outcomes |-> << >>, sleeps |-> 0, result |-> "NONE"]

\* The retry loop after an invocation that ended with out.
AfterAttempt(q, out) ==
    LET outs == Append(q.outcomes, out)
    IN IF ~RetryIf(out)
       THEN \* not retried: the outcome of the attempt is the caller's
            [q EXCEPT !.outcomes = outs,
                      !.state = IF out = "OK" THEN "returned" ELSE "raised",
                      !.result = IF out = "OK" THEN "VALUE" ELSE out]
       ELSE IF StopAfterAttempt(Len(outs), q.max_attempts)
       THEN [q EXCEPT !.outcomes = outs,
                      !.state = OnExhausted(q.reraise).state,
                      !.result = OnExhausted(q.reraise).result]
       ELSE [q EXCEPT !.outcomes = outs, !.state = "sleep", !.sleeps = @ + 1]

(***************************************************************************)
(* ws_manager.connect(): the reconnect loop of each feed.  A feed is       *)
(*   pc               where its task is suspended: in websockets.connect   *)
(*                    ("connect"), sending its subscriptions                *)
(*                    ("subscribe"), waiting for a message ("listen"), in   *)
(*                    the sleep before reconnecting ("sleep"), or ended by  *)
(*                    the event loop's shutdown ("cancelled"),              *)
(*   running, reconnect_delay   the attribute and the local of the code,    *)
(*   ws               the socket the manager holds: none, open or closed,   *)
(*   fails, sleeps    failures since the last established connection and    *)
(*                    the sleeps taken since then,                          *)
(*   last             how the last message of this connection was handled,  *)
(*   auth             how the subscription to the account's order updates   *)
(*                    ended in the current attempt,                         *)
(*   shut, late_attempts   disconnect() was called; connection attempts     *)
(*                    begun after that,                                     *)
(*   began            reconnect_delay at the top of the current iteration,  *)
(*   pings, pongs     "ping" messages received on the current connection,   *)
(*                    and "pong" messages sent on it.                       *)
(***************************************************************************)
InitialReconnectDelay == 1
MaxReconnectDelay == 30

NewFeed ==
    [pc |-> "connect", running |-> FALSE, reconnect_delay |-> InitialReconnectDelay,
     ws |-> "none", fails |-> 0, sleeps |-> << >>, last |-> "NONE",
     auth |-> "NONE", shut |-> FALSE, late_attempts |-> 0,
     began |-> InitialReconnectDelay, pings |-> 0, pongs |-> 0]

\* The top of the while True loop: one more connection attempt.
BeginAttempt(f) ==
    [f EXCEPT !.pc = "connect", !.auth = "NONE", !.began = f.reconnect_delay,
              !.late_attempts = IF f.shut THEN @ + 1 ELSE @]

\* The task ends with the failure.
AfterFailureTaskEnds(f) == [f EXCEPT !.pc = "cancelled"]

\* The end of a loop iteration, reached after the except clause or after
\* the message loop returned: sleep reconnect_delay if running, then loop.
AfterFailure(f) ==
    IF f.running
    THEN [f EXCEPT !.pc = "sleep", !.sleeps = Append(@, f.reconnect_delay)]
    ELSE BeginAttempt(f)

\* reconnect_delay = min(reconnect_delay * 2, max_reconnect_delay)
NextDelay(d) == IF d * 2 < MaxReconnectDelay THEN d * 2 ELSE MaxReconnectDelay

Failed(f) == [f EXCEPT !.fails = @ + 1, !.last = "NONE", !.auth = "NONE"]

\* websockets.connect returned: Backpack keeps the socket and sets running.
Connected(f) ==
    [f EXCEPT !.ws = "open", !.running = TRUE, !.pc = "subscribe",
              !.pings = 0, !.pongs = 0]

\* The subscriptions were sent and reconnect_delay is left as it is.
SubscribedKeepsDelay(f) ==
    [f EXCEPT !.pc = "listen", !.fails = 0, !.sleeps = << >>, !.last = "NONE"]

\* The subscriptions were sent: reconnect_delay = 1, then the message loop.
Subscribed(f) ==
    [f EXCEPT !.reconnect_delay = InitialReconnectDelay, !.pc = "listen",
              !.fails = 0, !.sleeps = << >>, !.last = "NONE"]

\* How the two subscriptions of an attempt end: both sent, the order-book
\* subscription raised, or the subscription to the account's order updates
\* (signature, auth token, send) raised or was refused.
SubscribeOutcomes == {"OK", "BOOK_FAILED", "ORDERS_FAILED"}

\* BackpackWebSocketManager.connect: _subscribe_orderbook() and
\* _subscribe_orders() are awaited in the try of the loop, so whichever
\* raises, the except clause logs and the iteration ends in the reconnect
\* sleep; the socket is left as it is.
BackpackAfterSubscribe(f, out) ==
    IF out = "OK" THEN Subscribed([f EXCEPT !.auth = "OK"])
    ELSE AfterFailure([Failed(f) EXCEPT
                         !.auth = IF out = "ORDERS_FAILED" THEN "FAILED" ELSE "NONE"])

\* LighterWebSocketManager.connect: a failed order-book send leaves the
\* async with, which closes the socket; the account subscription has a try
\* of its own, whose except clause logs a warning, and is skipped when
\* create_auth_token_with_expiry returns an error.
LighterAfterSubscribe(f, out) ==
    IF out = "BOOK_FAILED" THEN AfterFailure(Failed([f EXCEPT !.ws = "closed"]))
    ELSE Subscribed([f EXCEPT !.auth = IF out = "OK" THEN "OK" ELSE "FAILED"])

\* BackpackWebSocketManager._listen, one message: after disconnect() the
\* loop breaks; otherwise a message that fails to parse, or whose handling
\* raises, is logged and the loop goes on.
\* _handle_message dispatches on the stream name, 'depth' or 'orderUpdate';
\* any other message, a "ping" among them, is dropped.
BackpackOnMessage(f, kind) ==
    IF ~f.running THEN AfterFailure([f EXCEPT !.last = "NONE"])
    ELSE [f EXCEPT !.last = kind, !.pings = IF kind = "PING" THEN @ + 1 ELSE @]

\* LighterWebSocketManager.connect, one message of the while self.running
\* loop: a message that fails to parse, or whose handling raises, is logged
\* and the loop is left (break); leaving the async with closes the socket.
\* _handle_message answers a message of type "ping" with one "pong".
LighterOnMessage(f, kind) ==
    IF kind = "BAD"
    THEN AfterFailure([f EXCEPT !.last = "BAD", !.ws = "closed", !.fails = @ + 1,
                                !.auth = "NONE"])
    ELSE IF kind = "PING"
    THEN [f EXCEPT !.last = kind, !.pings = @ + 1, !.pongs = @ + 1]
    ELSE [f EXCEPT !.last = kind]

\* disconnect(): running = False, and the socket held, if any, is closed.
Disconnected(f) ==
    [f EXCEPT !.running = FALSE, !.shut = TRUE,
              !.ws = IF f.ws = "none" THEN "none" ELSE "closed"]

\* A feed that is connected, subscribed and listening.
StreamingFeed == Subscribed([Connected(NewFeed) EXCEPT !.auth = "OK"])

\* Both feeds are connected and listening.
FeedsStreaming ==
    /\ bp_feed = StreamingFeed
    /\ lt_feed = StreamingFeed

\* No query is running (the trading loop issues none).
IdleQuery == [NewQuery(DefaultMaxAttempts, FALSE) EXCEPT !.state = "idle"]
QueryIdle == query = IdleQuery

(***************************************************************************)
(* The Lighter feed's order book (exchanges/lighter.py).  A side of        *)
(* order_book maps each price to the size held there: "NONE" where the     *)
(* dict has no entry, else "THIN" for a size with size * price < 10000     *)
(* and "DEEP" for any other.  A level of a message carries a price and a   *)
(* size, "ZERO" for the size 0.                                            *)
(***************************************************************************)
EmptySide == [p \in Prices |-> "NONE"]

NewLighterBook == [bids |-> EmptySide, asks |-> EmptySide, snapshot_loaded |-> FALSE]

\* No level announced yet.
NoDepth == [bids |-> EmptySide, asks |-> EmptySide]

\* _update_order_book: size 0 pops the price, any other size is stored.
RECURSIVE UpdateOrderBook(_, _)
UpdateOrderBook(ob, updates) ==
    IF updates = << >> THEN ob
    ELSE LET u == Head(updates)
         IN UpdateOrderBook([ob EXCEPT ![u.price] =
                                IF u.size = "ZERO" THEN "NONE" ELSE u.size],
                            Tail(updates))

\* The levels of a side with sufficient liquidity (s * p >= 10000).
LiquidLevels(ob) == {p \in Prices : ob[p] = "DEEP"}

\* _get_best_levels: the highest liquid bid, the lowest liquid ask.
GetBestLevels(book) ==
    << IF LiquidLevels(book.bids) # {} THEN Some(SetMax(LiquidLevels(book.bids))) ELSE None,
       IF LiquidLevels(book.asks) # {} THEN Some(SetMin(LiquidLevels(book.asks))) ELSE None >>

\* The snapshot stored over the levels the book holds.
LighterSnapshotOverBook(book, bids, asks) ==
    [bids |-> UpdateOrderBook(book.bids, bids),
     asks |-> UpdateOrderBook(book.asks, asks),
     snapshot_loaded |-> TRUE]

\* _handle_message, "subscribed/order_book": the snapshot replaces the book;
\* best_bid and best_ask are not recomputed.
LighterSnapshot(book, bids, asks) ==
    [bids |-> UpdateOrderBook(EmptySide, bids),
     asks |-> UpdateOrderBook(EmptySide, asks),
     snapshot_loaded |-> TRUE]

\* _handle_message, "update/order_book": ignored before the snapshot.
LighterBookAfterUpdate(book, bids, asks) ==
    IF ~book.snapshot_loaded THEN book
    ELSE [book EXCEPT !.bids = UpdateOrderBook(@, bids),
                      !.asks = UpdateOrderBook(@, asks)]

\* The same message, seen from best_bid / best_ask / order_book_ready.
LighterQuoteAfterUpdate(w, book, bids, asks) ==
    IF ~book.snapshot_loaded THEN w
    ELSE LET best == GetBestLevels(LighterBookAfterUpdate(book, bids, asks))
             bid == IF Truthy(best[1]) THEN best[1] ELSE w.best_bid
             ask == IF Truthy(best[2]) THEN best[2] ELSE w.best_ask
         IN [best_bid |-> bid, best_ask |-> ask,
             order_book_ready |-> w.order_book_ready \/ (Truthy(bid) /\ Truthy(ask))]

\* connect(), top of the while True loop: the book is emptied, the exposed
\* pair and order_book_ready are left as they are.
LighterBookReset(book) == NewLighterBook

\* The book after a step of the feed task that leaves the task in state f:
\* a step that ends in websockets.connect has passed the top of the loop.
LighterBookAfterStep(f, book) ==
    IF f.pc = "connect" THEN LighterBookReset(book) ELSE book

\* The level lists of the messages delivered: no level, or one.
LevelSizes == {"ZERO", "THIN", "DEEP"}
LevelLists == {<< >>} \cup {<< [price |-> p, size |-> z] >> : p \in Prices, z \in LevelSizes}

\* The prices of the levels of a message, and of those with size zero.
LevelPrices(levels) == {levels[i].price : i \in DOMAIN levels}
ZeroPrices(levels) == {levels[i].price : i \in {j \in DOMAIN levels : levels[j].size = "ZERO"}}

\* What a feed's handler yielded for the last order-book update (whether a
\* bid and an ask, and which), the pair the feed exposed before it, the
\* prices the message announced with size zero on each side, whether it
\* was a snapshot and, if so, the depth its levels make on their own.
NoUpdate ==
    [venue |-> "NONE", bid |-> FALSE, ask |-> FALSE, before |-> << None, None >>,
     pair |-> << None, None >>, zero |-> << {}, {} >>,
     snapshot |-> FALSE, alone |-> NoDepth]

(***************************************************************************)
(* BackpackLighterArb.run (strategy/backpack_lighter_arb.py) and main      *)
(* (arbitrage.py): the life of the main task.                              *)
(*   phases           the phases entered so far,                           *)
(*   startup          how the startup of trading_loop ended,               *)
(*   feeds_ready      both order_book_ready flags, read when                *)
(*                    _wait_for_order_books returned True,                  *)
(*   refreshed        the startup refresh_positions returned,              *)
(*   clients          the clients _initialize_clients has constructed,     *)
(*   signalled        SIGINT or SIGTERM was delivered,                     *)
(*   trades_at_stop   total_trades when stop_flag was set, else -1,        *)
(*   cleanup_done     _cleanup_done,                                       *)
(*   cleanup          how wait_for(_async_cleanup) ended,                  *)
(*   bp_disconnects, lt_disconnects, summaries   calls of each client's    *)
(*                    disconnect, trade summaries logged,                  *)
(*   exit_code        what sys.exit was given, -1 while running,           *)
(*   tick_errors      exceptions caught by the loop's except clause,       *)
(*   tick_feeds, tick_quotes   where each feed task stood at the last      *)
(*                    tick, and the pair each feed exposed then,           *)
(*   position_query   the get_position call refresh_positions makes on     *)
(*                    each venue.                                          *)
(***************************************************************************)
NewRun ==
    [phases |-> << "Initializing" >>, startup |-> "RUNNING",
     feeds_ready |-> FALSE, refreshed |-> FALSE,
     clients |-> 0, signalled |-> FALSE, trades_at_stop |-> -1,
     cleanup_done |-> FALSE, cleanup |-> "NONE",
     bp_disconnects |-> 0, lt_disconnects |-> 0, summaries |-> 0,
     exit_code |-> -1, tick_errors |-> 0, tick_feeds |-> << "NONE", "NONE" >>,
     tick_quotes |-> << << None, None >>, << None, None >> >>,
     position_query |-> [bp |-> IdleQuery, lt |-> IdleQuery]]

Entered(r, phase) == [r EXCEPT !.phases = Append(@, phase)]

\* The main task as it enters the while loop of trading_loop.
TradingRun ==
    Entered(Entered([NewRun EXCEPT !.feeds_ready = TRUE, !.refreshed = TRUE,
                                   !.clients = 2, !.startup = "OK"],
                    "WaitingForFeeds"), "Trading")

\* shutdown(): a no-op once stop_flag is set.
StopRequested(r, stop, n) == IF stop THEN r ELSE [r EXCEPT !.trades_at_stop = n]

(***************************************************************************)
(* Initial states.  Every specification starts where trading_loop enters   *)
(* its while loop: both feeds have published a complete quote, the         *)
(* positions were refreshed from the venues, nothing was traded yet.       *)
(***************************************************************************)
Snapshot ==
    [bp |-> backpack_position, lt |-> lighter_position,
     total |-> total_trades, succ |-> successful_trades, fail |-> failed_trades,
     vbp |-> venue_position.bp, vlt |-> venue_position.lt]

\* Nothing traded, nothing received.
InitUntraded ==
    /\ stop_flag = FALSE
    /\ total_trades = 0 /\ successful_trades = 0 /\ failed_trades = 0
    /\ long_spread = None /\ short_spread = None /\ signal = "NONE"
    /\ can_trade_call = [dir |-> "NONE", pos |-> 0, ok |-> FALSE]
    /\ obm = NewOrderBookManager
    /\ direction = "NONE" /\ bp_side = "NONE" /\ lt_side = "NONE"
    /\ bp_result = "NONE" /\ lt_result = "NONE"
    /\ bp_leg = "idle" /\ lt_leg = "idle"
    /\ bp_orders = << >> /\ lt_orders = << >>
    /\ bp_resp = "NONE" /\ lt_resp = "NONE" /\ lt_fill = "NONE"
    /\ lt_book = NewLighterBook
    /\ bp_depth = NoDepth
    /\ last_update = NoUpdate

\* The bookkeeping of a run that has not traded.
InitHistory ==
    /\ pre = Snapshot
    /\ pos0 = [bp |-> backpack_position, lt |-> lighter_position]
    /\ outcome = "NONE" /\ n_long_ok = 0 /\ n_short_ok = 0
    /\ in_flight = 0 /\ tick_execs = 0

\* Everything but the position of the main task: the venues hold the
\* positions the cache shows.
InitBase ==
    /\ InitUntraded
    /\ venue_position = [bp |-> backpack_position, lt |-> lighter_position]
    /\ InitHistory

InitState ==
    /\ pc = "tick"
    /\ run = TradingRun
    /\ InitBase

ReadyQuotes ==
    { [best_bid |-> Some(b), best_ask |-> Some(a), order_book_ready |-> TRUE] :
        b \in Prices, a \in Prices }

\* The trading loop: any quotes on both venues, any thresholds the command
\* line accepts, one lot per trade, flat positions, no position limit.
Init ==
    /\ order_quantity = 1
    /\ long_threshold \in Thresholds /\ short_threshold \in Thresholds
    /\ max_position = 0
    /\ backpack_position = 0 /\ lighter_position = 0
    /\ bp_ws \in ReadyQuotes /\ lt_ws \in ReadyQuotes
    /\ InitState /\ QueryIdle /\ FeedsStreaming

\* The coordinator alone: any order quantity and any refreshed positions.
InitCoord ==
    /\ order_quantity \in Quantities
    /\ long_threshold = 0 /\ short_threshold = 0
    /\ max_position = 0
    /\ backpack_position \in InitPositions /\ lighter_position \in InitPositions
    /\ bp_ws = [best_bid |-> Some(1), best_ask |-> Some(1), order_book_ready |-> TRUE]
    /\ lt_ws = [best_bid |-> Some(1), best_ask |-> Some(1), order_book_ready |-> TRUE]
    /\ InitState /\ QueryIdle /\ FeedsStreaming

\* The coordinator with the venue clients: any order quantity, flat positions.
InitExec ==
    /\ order_quantity \in Quantities
    /\ long_threshold = 0 /\ short_threshold = 0
    /\ max_position = 0
    /\ backpack_position = 0 /\ lighter_position = 0
    /\ bp_ws = [best_bid |-> Some(1), best_ask |-> Some(1), order_book_ready |-> TRUE]
    /\ lt_ws = [best_bid |-> Some(1), best_ask |-> Some(1), order_book_ready |-> TRUE]
    /\ InitState /\ QueryIdle /\ FeedsStreaming

(***************************************************************************)
(* _execute_arbitrage up to its await of asyncio.gather.                   *)
(***************************************************************************)
ExecStart(d) ==
    /\ total_trades' = total_trades + 1
    /\ direction' = d
    /\ bp_side' = BpSide(d)
    /\ lt_side' = LtSide(d)
    /\ bp_result' = "PENDING" /\ lt_result' = "PENDING"
    /\ bp_leg' = "call" /\ lt_leg' = "call"
    /\ bp_orders' = << >> /\ lt_orders' = << >>
    /\ bp_resp' = "NONE" /\ lt_resp' = "NONE" /\ lt_fill' = "NONE"
    /\ pre' = Snapshot
    /\ outcome' = "NONE"
    /\ in_flight' = in_flight + 1
    /\ pc' = "gather"
    /\ UNCHANGED << successful_trades, failed_trades, ledger_vars, venue_position,
                    pos0, n_long_ok, n_short_ok >>

\* A dispatch that falls back to the other direction when the signalled
\* one is blocked.
DispatchEitherDirection(sig, maxp, bp_pos, q) ==
    IF sig = "NONE" THEN "NONE"
    ELSE IF can_trade(sig, maxp, bp_pos, q) THEN sig
    ELSE IF sig = "LONG_BACKPACK" /\ can_trade("SHORT_BACKPACK", maxp, bp_pos, q)
    THEN "SHORT_BACKPACK"
    ELSE IF sig = "SHORT_BACKPACK" /\ can_trade("LONG_BACKPACK", maxp, bp_pos, q)
    THEN "LONG_BACKPACK"
    ELSE "NONE"

\* The if / elif of the tick that calls _execute_arbitrage.
Dispatch(sig, maxp, bp_pos, q) ==
    IF sig = "LONG_BACKPACK" /\ can_trade("LONG_BACKPACK", maxp, bp_pos, q)
    THEN "LONG_BACKPACK"
    ELSE IF sig = "SHORT_BACKPACK" /\ can_trade("SHORT_BACKPACK", maxp, bp_pos, q)
    THEN "SHORT_BACKPACK"
    ELSE "NONE"

\* How many of the two call sites of _execute_arbitrage a tick reaches.
CallsInTick(sig, maxp, bp_pos, q) ==
    LET long_call == sig = "LONG_BACKPACK" /\ can_trade("LONG_BACKPACK", maxp, bp_pos, q)
        short_call == ~long_call /\ sig = "SHORT_BACKPACK"
                      /\ can_trade("SHORT_BACKPACK", maxp, bp_pos, q)
    IN (IF long_call THEN 1 ELSE 0) + (IF short_call THEN 1 ELSE 0)

\* A loop that never tests stop_flag.
LoopIgnoresStop(stop) == TRUE

\* while not self.stop_flag
LoopContinues(stop) == ~stop

\* The body of the while loop up to its next suspension: the sleep of the
\* tick, or the gather of an execution.
TickBody ==
    /\ LET o1 == update_order_books(obm, bp_ws, lt_ws)
           sp == get_spread(o1)
           sig == Signal(sp[1], sp[2], long_threshold, short_threshold)
           d == Dispatch(sig, max_position, backpack_position, order_quantity)
       IN /\ obm' = o1
          /\ IF ~is_ready(o1)
             THEN /\ tick_execs' = 0
                  /\ UNCHANGED << long_spread, short_spread, signal, can_trade_call, pc,
                                  count_vars, exec_vars, venue_vars, ledger_vars,
                                  hist_vars >>
             ELSE /\ long_spread' = sp[1]
                  /\ short_spread' = sp[2]
                  /\ signal' = sig
                  /\ can_trade_call' =
                       IF sig = "NONE" THEN [dir |-> "NONE", pos |-> 0, ok |-> FALSE]
                       ELSE [dir |-> sig, pos |-> backpack_position,
                             ok |-> can_trade(sig, max_position, backpack_position,
                                              order_quantity)]
                  /\ tick_execs' = CallsInTick(sig, max_position, backpack_position,
                                               order_quantity)
                  /\ IF d = "NONE"
                     THEN UNCHANGED << pc, count_vars, exec_vars, venue_vars,
                                       ledger_vars, hist_vars >>
                     ELSE total_trades < MaxTrades /\ ExecStart(d)
    /\ UNCHANGED << svc_vars, lt_book, bp_depth, last_update, cfg_vars, feed_vars >>

\* What the tick finds when it copies the quotes: where each feed task
\* stands and the pair each ws_manager exposes.
TickFeeds(r) ==
    [r EXCEPT !.tick_feeds = << bp_feed.pc, lt_feed.pc >>,
              !.tick_quotes = << << bp_ws.best_bid, bp_ws.best_ask >>,
                                 << lt_ws.best_bid, lt_ws.best_ask >> >>]

\* One iteration of the while loop, from the test of stop_flag to the next
\* suspension.
Tick ==
    /\ pc = "tick" /\ LoopContinues(stop_flag)
    /\ TickBody
    /\ run' = TickFeeds(run)
    /\ UNCHANGED stop_flag

\* The same iteration when SIGINT or SIGTERM arrives after the test of
\* stop_flag: the handler, shutdown(), runs between two instructions of the
\* tick, and the tick goes on to its next suspension.
TickSignalled ==
    /\ pc = "tick" /\ LoopContinues(stop_flag)
    /\ TickBody
    /\ run' = TickFeeds([StopRequested(run, stop_flag, total_trades)
                           EXCEPT !.signalled = TRUE])
    /\ stop_flag' = TRUE

\* An except clause that logs and leaves the loop.
TickErrorEndsLoop == "done"

\* The loop's except clause: the error is logged and, after sleep(1), the
\* loop goes to its next iteration.
AfterTickError == "tick"

\* An iteration in which a statement raises, before or after the
\* quotes were copied: control goes to the loop's except clause.
TickRaises(copied) ==
    /\ pc = "tick" /\ LoopContinues(stop_flag)
    /\ run.tick_errors < MaxTickErrors
    /\ obm' = IF copied THEN update_order_books(obm, bp_ws, lt_ws) ELSE obm
    /\ run' = [run EXCEPT !.tick_errors = @ + 1]
    /\ pc' = AfterTickError
    /\ tick_execs' = 0
    /\ UNCHANGED << svc_vars, lt_book, bp_depth, last_update, cfg_vars, count_vars,
                    long_spread, short_spread, signal, can_trade_call,
                    feed_vars, ledger_vars, exec_vars, venue_vars, hist_vars,
                    stop_flag >>

\* while not self.stop_flag: the loop ends at the top of a tick.
LoopExit ==
    /\ pc = "tick" /\ ~LoopContinues(stop_flag)
    /\ pc' = "done"
    /\ UNCHANGED << svc_vars, orch_vars, cfg_vars, count_vars, tick_vars, feed_vars, ledger_vars,
                    exec_vars, venue_vars, hist_vars, stop_flag >>

\* shutdown(), run by the SIGINT / SIGTERM handler at any moment.
Shutdown ==
    /\ pc # "exited"
    /\ ~stop_flag \/ ~run.signalled
    /\ stop_flag' = TRUE
    /\ run' = [StopRequested(run, stop_flag, total_trades) EXCEPT !.signalled = TRUE]
    /\ UNCHANGED << svc_vars, lt_book, bp_depth, last_update, cfg_vars, count_vars, tick_vars, feed_vars, ledger_vars,
                    exec_vars, venue_vars, hist_vars, pc >>

\* _execute_arbitrage called for a direction, as the tick does.
Invoke(d) ==
    /\ pc = "tick"
    /\ total_trades < MaxTrades
    /\ ExecStart(d)
    /\ UNCHANGED << svc_vars, orch_vars, cfg_vars, tick_vars, feed_vars, stop_flag >>

(***************************************************************************)
(* The Backpack feed task, which runs between any two steps of the        *)
(* trading loop.  Lighter's quote is the one the loop started with.        *)
(***************************************************************************)
BpDepth(bids, asks) ==
    /\ bp_ws' = BackpackBookUpdate(bp_ws, bids, asks)
    /\ bp_ws' # bp_ws
    /\ UNCHANGED << svc_vars, orch_vars, cfg_vars, count_vars, tick_vars, lt_ws, ledger_vars,
                    exec_vars, venue_vars, hist_vars, stop_flag, pc >>

(***************************************************************************)
(* The two legs.                                                           *)
(***************************************************************************)
\* The capability interface seen from the coordinator: gather hands back
\* one entry per leg.
GatherReturns(rb, rl) ==
    /\ pc = "gather" /\ bp_leg = "call" /\ lt_leg = "call"
    /\ bp_result' = rb /\ lt_result' = rl
    /\ bp_leg' = "done" /\ lt_leg' = "done"
    /\ UNCHANGED << svc_vars, orch_vars, cfg_vars, count_vars, tick_vars, feed_vars, ledger_vars,
                    direction, bp_side, lt_side, venue_vars, hist_vars,
                    stop_flag, pc >>

\* BackpackClient.place_market_order: no await inside, it runs in one step.
\* A side other than buy / sell returns a failure before any order is sent.
BpPlace(resp) ==
    /\ pc = "gather" /\ bp_leg = "call"
    /\ IF BackpackOrderSide(bp_side) = "INVALID"
       THEN /\ bp_leg' = "done" /\ bp_result' = "FAIL"
            /\ UNCHANGED << bp_orders, bp_resp, venue_position >>
       ELSE /\ bp_orders' = Append(bp_orders, BackpackOrderSide(bp_side))
            /\ bp_resp' = resp
            /\ venue_position' =
                 IF resp = "FILLED"
                 THEN [venue_position EXCEPT
                         !.bp = VenueAfterFill(@, bp_side, order_quantity)]
                 ELSE venue_position
            /\ bp_leg' = BpLegNext(resp)
            /\ bp_result' = IF BpLegNext(resp) = "done"
                            THEN BackpackResult(resp) ELSE "PENDING"
    /\ UNCHANGED << svc_vars, orch_vars, cfg_vars, count_vars, tick_vars, feed_vars, ledger_vars,
                    direction, bp_side, lt_side, lt_result, lt_leg,
                    lt_orders, lt_resp, lt_fill, hist_vars, stop_flag, pc >>

\* LighterClient.place_market_order up to the return of create_order.  The
\* Backpack leg, first in gather's list and free of awaits, has run before.
\* The signer client exists since connect(), and fetch_bbo_prices hands
\* back a pair whatever happens, so a valid side always reaches create_order.
LtSubmit(resp, fill) ==
    /\ pc = "gather" /\ lt_leg = "call" /\ bp_leg = "done"
    /\ IF LighterIsAsk(lt_side) = "INVALID"
       THEN /\ lt_leg' = "done" /\ lt_result' = "FAIL"
            /\ UNCHANGED << lt_orders, lt_resp, lt_fill, venue_position >>
       ELSE /\ lt_orders' = Append(lt_orders, LighterIsAsk(lt_side))
            /\ lt_resp' = resp
            /\ lt_fill' = IF resp = "ACCEPTED" THEN fill ELSE "NONE"
            /\ venue_position' =
                 IF resp = "ACCEPTED" /\ fill = "FILLED"
                 THEN [venue_position EXCEPT
                         !.lt = VenueAfterFill(@, lt_side, order_quantity)]
                 ELSE venue_position
            /\ lt_leg' = LtLegNext(resp)
            /\ lt_result' = IF LtLegNext(resp) = "done" THEN "FAIL" ELSE "PENDING"
    /\ UNCHANGED << svc_vars, orch_vars, cfg_vars, count_vars, tick_vars, feed_vars, ledger_vars,
                    direction, bp_side, lt_side, bp_result, bp_leg,
                    bp_orders, bp_resp, hist_vars, stop_flag, pc >>

\* LighterClient.place_market_order after asyncio.sleep(2).
LtWake ==
    /\ pc = "gather" /\ lt_leg = "sleep"
    /\ lt_leg' = "done"
    /\ lt_result' = LighterResultAfterWait
    /\ UNCHANGED << svc_vars, orch_vars, cfg_vars, count_vars, tick_vars, feed_vars, ledger_vars,
                    direction, bp_side, lt_side, bp_result, bp_leg,
                    venue_vars, hist_vars, stop_flag, pc >>

(***************************************************************************)
(* _execute_arbitrage after gather: classification, counters, ledger.      *)
(* No statement of the try body raises for the results modelled, so the    *)
(* except branch is not taken.                                             *)
(***************************************************************************)
\* gather resumes its caller on the first leg that is over.
FirstLegOver(bl, ll) == bl = "done" \/ ll = "done"

\* await asyncio.gather(..., return_exceptions=True) resumes its caller when
\* both legs are over, whatever each returned or raised.
GatherDone(bl, ll) == bl = "done" /\ ll = "done"

ExecFinish ==
    /\ pc = "gather" /\ GatherDone(bp_leg, lt_leg)
    /\ LET bp_success == LegSuccess(bp_result)
           lt_success == LegSuccess(lt_result)
           ledger == LedgerAfter(bp_success, lt_success, bp_side, order_quantity,
                                 backpack_position, lighter_position)
       IN /\ successful_trades' = SuccessfulAfter(bp_success, lt_success, successful_trades)
          /\ failed_trades' = FailedAfter(bp_success, lt_success, failed_trades)
          /\ backpack_position' = ledger[1]
          /\ lighter_position' = ledger[2]
          /\ outcome' = JointOutcome(bp_success, lt_success)
          /\ n_long_ok' = IF bp_success /\ lt_success /\ direction = "LONG_BACKPACK"
                          THEN n_long_ok + 1 ELSE n_long_ok
          /\ n_short_ok' = IF bp_success /\ lt_success /\ direction = "SHORT_BACKPACK"
                           THEN n_short_ok + 1 ELSE n_short_ok
    /\ in_flight' = in_flight - 1
    /\ pc' = "tick"
    /\ UNCHANGED << svc_vars, orch_vars, cfg_vars, total_trades, tick_vars, feed_vars, exec_vars,
                    venue_vars, pre, pos0, stop_flag >>

(***************************************************************************)
(* Specifications.                                                         *)
(***************************************************************************)
Next ==
    \/ Tick
    \/ LoopExit
    \/ Shutdown
    \/ \E bids \in DepthSides, asks \in DepthSides : BpDepth(bids, asks)
    \/ \E rb \in {"OK", "FAIL"}, rl \in {"OK", "FAIL"} : GatherReturns(rb, rl)
    \/ ExecFinish

Spec == Init /\ [][Next]_vars

NextCoord ==
    \/ \E d \in Directions : Invoke(d)
    \/ \E rb \in LegResults, rl \in LegResults : GatherReturns(rb, rl)
    \/ ExecFinish

SpecCoord == InitCoord /\ [][NextCoord]_vars

NextExec ==
    \/ \E d \in Directions : Invoke(d)
    \/ \E resp \in BpResponses : BpPlace(resp)
    \/ \E resp \in LtResponses, fill \in LtFills : LtSubmit(resp, fill)
    \/ LtWake
    \/ ExecFinish

SpecExec == InitExec /\ [][NextExec]_vars

\* The trading loop while Backpack's depth stream may carry a zero price.
InitQuote ==
    /\ order_quantity = 1
    /\ long_threshold = 0 /\ short_threshold = 0
    /\ max_position = 0
    /\ backpack_position = 0 /\ lighter_position = 0
    /\ bp_ws \in ReadyQuotes /\ lt_ws \in ReadyQuotes
    /\ InitState /\ QueryIdle /\ FeedsStreaming

NextQuote ==
    \/ Tick
    \/ \E bids \in ZeroDepthSides, asks \in ZeroDepthSides : BpDepth(bids, asks)
    \/ \E rb \in {"OK", "FAIL"}, rl \in {"OK", "FAIL"} : GatherReturns(rb, rl)
    \/ ExecFinish

SpecQuote == InitQuote /\ [][NextQuote]_vars

\* The trading loop under a position limit: any limit, any order quantity,
\* any positions the startup refresh can read from the venues.  Lighter
\* quotes MaxPrice / 1, so that Backpack's quote alone decides the signal.
InitLimit ==
    /\ order_quantity \in Quantities
    /\ long_threshold = 0 /\ short_threshold = 0
    /\ max_position \in Caps
    /\ backpack_position \in RefreshedPositions /\ lighter_position \in InitPositions
    /\ bp_ws \in ReadyQuotes
    /\ lt_ws = [best_bid |-> Some(MaxPrice), best_ask |-> Some(1),
                order_book_ready |-> TRUE]
    /\ InitState /\ QueryIdle /\ FeedsStreaming

NextLimit ==
    \/ Tick
    \/ \E bids \in DepthSides, asks \in DepthSides : BpDepth(bids, asks)
    \/ \E rb \in {"OK", "FAIL"}, rl \in {"OK", "FAIL"} : GatherReturns(rb, rl)
    \/ ExecFinish

SpecLimit == InitLimit /\ [][NextLimit]_vars

(***************************************************************************)
(* A call of a query wrapped by query_retry, e.g. get_position.            *)
(***************************************************************************)
QueryAttempt(out) ==
    /\ query.state = "call"
    /\ query' = AfterAttempt(query, out)
    /\ UNCHANGED << cfg_vars, count_vars, tick_vars, feed_vars, ledger_vars,
                    exec_vars, venue_vars, hist_vars, bp_feed, lt_feed,
                    orch_vars, stop_flag, pc >>

\* The wait between two attempts is over.
QueryWake ==
    /\ query.state = "sleep"
    /\ query' = [query EXCEPT !.state = "call"]
    /\ UNCHANGED << cfg_vars, count_vars, tick_vars, feed_vars, ledger_vars,
                    exec_vars, venue_vars, hist_vars, bp_feed, lt_feed,
                    orch_vars, stop_flag, pc >>

InitQuery ==
    /\ order_quantity = 1
    /\ long_threshold = 0 /\ short_threshold = 0
    /\ max_position = 0
    /\ backpack_position = 0 /\ lighter_position = 0
    /\ bp_ws = [best_bid |-> Some(1), best_ask |-> Some(1), order_book_ready |-> TRUE]
    /\ lt_ws = [best_bid |-> Some(1), best_ask |-> Some(1), order_book_ready |-> TRUE]
    /\ InitState /\ FeedsStreaming
    /\ \E m \in 1..DefaultMaxAttempts, r \in BOOLEAN : query = NewQuery(m, r)

NextQuery ==
    \/ \E out \in QueryOutcomes : QueryAttempt(out)
    \/ QueryWake

SpecQuery == InitQuery /\ [][NextQuery]_vars

(***************************************************************************)
(* The feed tasks, from their creation to the end of the process.          *)
(***************************************************************************)
loop_vars == << cfg_vars, count_vars, tick_vars, feed_vars, ledger_vars,
                exec_vars, venue_vars, hist_vars, query >>
trade_vars == << loop_vars, orch_vars >>

FeedSteps(f) ==
    /\ f.pc # "cancelled"
    /\ f.late_attempts < MaxLateAttempts

\* await websockets.connect(...)
BpConnect(ok) ==
    /\ FeedSteps(bp_feed) /\ bp_feed.pc = "connect"
    /\ ok \/ bp_feed.fails < MaxFails
    /\ bp_feed' = IF ok THEN Connected(bp_feed) ELSE AfterFailure(Failed(bp_feed))
    /\ UNCHANGED << trade_vars, lt_feed, stop_flag, pc >>

\* _subscribe_orderbook and _subscribe_orders
BpSubscribe(out) ==
    /\ FeedSteps(bp_feed) /\ bp_feed.pc = "subscribe"
    /\ IF out = "OK" THEN bp_feed.ws = "open" ELSE bp_feed.fails < MaxFails
    /\ bp_feed' = BackpackAfterSubscribe(bp_feed, out)
    /\ UNCHANGED << trade_vars, lt_feed, stop_flag, pc >>

\* _listen receives a message.
BpMessage(kind) ==
    /\ FeedSteps(bp_feed) /\ bp_feed.pc = "listen" /\ bp_feed.ws = "open"
    /\ kind = "PING" => bp_feed.pings < MaxPings
    /\ bp_feed' = BackpackOnMessage(bp_feed, kind)
    /\ bp_feed' # bp_feed
    /\ UNCHANGED << trade_vars, lt_feed, stop_flag, pc >>

\* _listen returns: the connection was closed, by the venue, by the
\* network or by disconnect(), or the iteration raised.
BpListenEnds ==
    /\ FeedSteps(bp_feed) /\ bp_feed.pc = "listen"
    /\ bp_feed.ws = "closed" \/ bp_feed.fails < MaxFails
    /\ bp_feed' = AfterFailure(Failed([bp_feed EXCEPT !.ws = "closed"]))
    /\ UNCHANGED << trade_vars, lt_feed, stop_flag, pc >>

\* asyncio.sleep(reconnect_delay) is over.
BpWake ==
    /\ bp_feed.pc = "sleep"
    /\ bp_feed' = BeginAttempt([bp_feed EXCEPT
                                  !.reconnect_delay = NextDelay(@)])
    /\ UNCHANGED << trade_vars, lt_feed, stop_flag, pc >>

\* async with websockets.connect(...) as self.ws: running = True
LtConnect(ok) ==
    /\ FeedSteps(lt_feed) /\ lt_feed.pc = "connect"
    /\ ok \/ lt_feed.fails < MaxFails
    /\ lt_feed' = IF ok THEN Connected(lt_feed) ELSE AfterFailure(Failed(lt_feed))
    /\ lt_book' = LighterBookAfterStep(lt_feed', lt_book)
    /\ UNCHANGED << loop_vars, run, bp_depth, last_update, bp_feed, stop_flag, pc >>

\* The order-book subscription, then the account subscription.
LtSubscribe(out) ==
    /\ FeedSteps(lt_feed) /\ lt_feed.pc = "subscribe"
    /\ IF out = "BOOK_FAILED" THEN lt_feed.fails < MaxFails ELSE lt_feed.ws = "open"
    /\ lt_feed' = LighterAfterSubscribe(lt_feed, out)
    /\ lt_book' = LighterBookAfterStep(lt_feed', lt_book)
    /\ UNCHANGED << loop_vars, run, bp_depth, last_update, bp_feed, stop_flag, pc >>

\* The message loop receives a message.
LtMessage(kind) ==
    /\ FeedSteps(lt_feed) /\ lt_feed.pc = "listen" /\ lt_feed.ws = "open"
    /\ lt_feed.running
    /\ kind # "BAD" \/ lt_feed.fails < MaxFails
    /\ kind = "PING" => lt_feed.pings < MaxPings
    /\ lt_feed' = LighterOnMessage(lt_feed, kind)
    /\ lt_feed' # lt_feed
    /\ lt_book' = LighterBookAfterStep(lt_feed', lt_book)
    /\ UNCHANGED << loop_vars, run, bp_depth, last_update, bp_feed, stop_flag, pc >>

\* The message loop is left: recv raised ConnectionClosed, or running is
\* false when the while condition is tested.
LtListenEnds ==
    /\ FeedSteps(lt_feed) /\ lt_feed.pc = "listen"
    /\ lt_feed.ws = "closed" \/ ~lt_feed.running \/ lt_feed.fails < MaxFails
    /\ lt_feed' = AfterFailure(Failed([lt_feed EXCEPT !.ws = "closed"]))
    /\ lt_book' = LighterBookAfterStep(lt_feed', lt_book)
    /\ UNCHANGED << loop_vars, run, bp_depth, last_update, bp_feed, stop_flag, pc >>

LtFeedWake ==
    /\ lt_feed.pc = "sleep"
    /\ lt_feed' = BeginAttempt([lt_feed EXCEPT
                                  !.reconnect_delay = NextDelay(@)])
    /\ lt_book' = LighterBookAfterStep(lt_feed', lt_book)
    /\ UNCHANGED << loop_vars, run, bp_depth, last_update, bp_feed, stop_flag, pc >>

\* run(), the finally clause up to the first suspension: shutdown(), then
\* _async_cleanup under wait_for: _cleanup_done is tested and set, and
\* backpack_client.disconnect() is called if the client exists.
BpDisconnect ==
    /\ pc = "done"
    /\ stop_flag' = TRUE
    /\ LET r == Entered(StopRequested(run, stop_flag, total_trades), "ShuttingDown")
       IN IF r.cleanup_done
          THEN /\ run' = [r EXCEPT !.cleanup = "RETURNED"]
               /\ pc' = "cleanup_end"
               /\ UNCHANGED bp_feed
          ELSE /\ run' = [r EXCEPT !.cleanup_done = TRUE,
                                   !.bp_disconnects = IF r.clients >= 1 THEN @ + 1 ELSE @]
               /\ bp_feed' = IF r.clients >= 1 /\ bp_feed.pc # "absent"
                             THEN Disconnected(bp_feed) ELSE bp_feed
               /\ pc' = "cleanup_lt"
    /\ UNCHANGED << loop_vars, lt_book, bp_depth, last_update, lt_feed >>

\* _async_cleanup: backpack_client.disconnect() returned or raised;
\* lighter_client.disconnect() is called if the client exists, and
\* _async_cleanup returns.
LtDisconnect ==
    /\ pc = "cleanup_lt"
    /\ run' = [run EXCEPT !.cleanup = "RETURNED",
                          !.lt_disconnects = IF run.clients >= 2 THEN @ + 1 ELSE @]
    /\ lt_feed' = IF run.clients >= 2 /\ lt_feed.pc # "absent"
                  THEN Disconnected(lt_feed) ELSE lt_feed
    /\ pc' = "cleanup_end"
    /\ UNCHANGED << loop_vars, lt_book, bp_depth, last_update, bp_feed, stop_flag >>

\* wait_for(self._async_cleanup(), timeout=10.0) times out while a
\* disconnect is awaited: the cleanup is cancelled where it stands.
CleanupTimeout ==
    /\ pc = "cleanup_lt"
    /\ run' = [run EXCEPT !.cleanup = "TIMEOUT"]
    /\ pc' = "cleanup_end"
    /\ UNCHANGED << loop_vars, lt_book, bp_depth, last_update, bp_feed, lt_feed, stop_flag >>

\* A finally clause that returns without the summary.
SummarySkipped(r) == r

\* run() after wait_for: the trade summary is logged.
SummaryLogged(r) == [r EXCEPT !.summaries = @ + 1]

\* main() after bot.run() returned: return 0, handed to sys.exit.
MainReturns(r) == [r EXCEPT !.exit_code = 0]

\* run() logs the summary and returns, main() returns; asyncio.run cancels
\* the tasks still pending.
ProcessExit ==
    /\ pc = "cleanup_end"
    /\ pc' = "exited"
    /\ run' = MainReturns(SummaryLogged(run))
    /\ bp_feed' = [bp_feed EXCEPT !.pc = IF @ = "absent" THEN @ ELSE "cancelled"]
    /\ lt_feed' = [lt_feed EXCEPT !.pc = IF @ = "absent" THEN @ ELSE "cancelled"]
    /\ UNCHANGED << loop_vars, lt_book, bp_depth, last_update, stop_flag >>

InitFeed ==
    /\ order_quantity = 1
    /\ long_threshold = 0 /\ short_threshold = 0
    /\ max_position = 0
    /\ backpack_position = 0 /\ lighter_position = 0
    /\ bp_ws = [best_bid |-> None, best_ask |-> None, order_book_ready |-> FALSE]
    /\ lt_ws = [best_bid |-> None, best_ask |-> None, order_book_ready |-> FALSE]
    /\ InitState /\ QueryIdle
    /\ bp_feed = NewFeed /\ lt_feed = NewFeed

MessageKinds == {"GOOD", "BAD"}

NextFeed ==
    \/ \E ok \in BOOLEAN : BpConnect(ok)
    \/ \E out \in SubscribeOutcomes : BpSubscribe(out)
    \/ \E kind \in MessageKinds : BpMessage(kind)
    \/ BpListenEnds
    \/ BpWake
    \/ \E ok \in BOOLEAN : LtConnect(ok)
    \/ \E out \in SubscribeOutcomes : LtSubscribe(out)
    \/ \E kind \in MessageKinds : LtMessage(kind)
    \/ LtListenEnds
    \/ LtFeedWake
    \/ Shutdown
    \/ LoopExit
    \/ BpDisconnect
    \/ LtDisconnect
    \/ ProcessExit

SpecFeed == InitFeed /\ [][NextFeed]_vars

\* asyncio.sleep returns: a sleeping feed task is resumed.
SpecFeedFair == SpecFeed /\ WF_vars(BpWake) /\ WF_vars(LtFeedWake)


(***************************************************************************)
(* Properties.                                                             *)
(***************************************************************************)
Ledger == << backpack_position, lighter_position >>
LedgerBefore == << pre.bp, pre.lt >>
Finished == pc # "gather" /\ outcome # "NONE"

\* venue-true net exposure minus the ledger's net position
Divergence ==
    (venue_position.bp + venue_position.lt) - (backpack_position + lighter_position)

\* C1 (SpecCoord): an execution changes the cached positions if and only if
\* both legs returned success; while the legs are awaited, and after any
\* outcome in which a leg failed or raised, both positions are the ones the
\* execution started with.
C1_LedgerChangesIffBothSucceeded ==
    /\ pc = "gather" => Ledger = LedgerBefore
    /\ Finished => ((Ledger # LedgerBefore) <=> (bp_result = "OK" /\ lt_result = "OK"))
    /\ outcome \in {"VENUE_A_FAILED", "VENUE_B_FAILED", "BOTH_FAILED"}
         => Ledger = LedgerBefore

C1_Witness ==
    /\ Finished /\ outcome = "VENUE_A_FAILED"
    /\ bp_result = "EXC" /\ lt_result = "OK"
    /\ n_long_ok = 1
    /\ Ledger = LedgerBefore
    /\ backpack_position = pos0.bp + order_quantity

\* C2 (SpecCoord): an execution adds exactly 1 to total_trades when it is
\* invoked and exactly 1 to exactly one of successful_trades, failed_trades
\* when it ends, whatever the two legs returned; with no execution in
\* flight total_trades = successful_trades + failed_trades.
C2_CountersOncePerInvocation ==
    /\ pc = "gather" =>
         /\ total_trades = pre.total + 1
         /\ successful_trades = pre.succ
         /\ failed_trades = pre.fail
    /\ Finished =>
         /\ total_trades = pre.total + 1
         /\ \/ successful_trades = pre.succ + 1 /\ failed_trades = pre.fail
            \/ successful_trades = pre.succ /\ failed_trades = pre.fail + 1
    /\ in_flight = 0 => total_trades = successful_trades + failed_trades

C2_Witness ==
    /\ Finished /\ in_flight = 0
    /\ lt_result = "EXC"
    /\ total_trades = 2 /\ successful_trades = 1 /\ failed_trades = 1

\* C3 (SpecExec): after an execution in which exactly one leg failed, each
\* venue has received the single order of that execution and no other
\* (nothing unwinds the leg that went through), the ledger is as it was
\* before, and when Backpack filled while Lighter failed the venue-true net
\* exposure has moved away from the ledger's by one order quantity.  The
\* witness is a state in which, after single-leg failures only, the two
\* differ by two order quantities.
C3_SingleLegFailureUncompensated ==
    /\ outcome \in {"VENUE_A_FAILED", "VENUE_B_FAILED"} =>
         /\ Len(bp_orders) = 1 /\ Len(lt_orders) = 1
         /\ Ledger = LedgerBefore
    /\ outcome = "VENUE_B_FAILED" =>
         /\ Abs(venue_position.bp - pre.vbp) = order_quantity
         /\ venue_position.lt = pre.vlt
         /\ Abs(Divergence - ((pre.vbp + pre.vlt) - (pre.bp + pre.lt))) = order_quantity

C3_Witness ==
    /\ Finished /\ successful_trades = 0 /\ failed_trades = 2
    /\ outcome = "VENUE_B_FAILED"
    /\ Abs(Divergence) >= 2 * order_quantity

\* C4 (SpecExec), the claim as stated: neither place_market_order raises;
\* a rejection, a non-filled order and an internal exception each give a
\* result with success = false, on either venue; the joint outcome is one
\* of the four.
C4_Claim ==
    /\ bp_result # "EXC" /\ lt_result # "EXC"
    /\ bp_leg = "done" /\ bp_resp \in {"EMPTY", "ERROR", "NEW", "RAISE"}
         => bp_result = "FAIL"
    /\ lt_leg = "done" /\ lt_resp \in {"ERROR", "RAISE"} => lt_result = "FAIL"
    /\ lt_leg = "done" /\ lt_resp = "ACCEPTED" /\ lt_fill = "OPEN" => lt_result = "FAIL"
    /\ Finished => outcome \in {"BOTH_SUCCEEDED", "VENUE_A_FAILED",
                                "VENUE_B_FAILED", "BOTH_FAILED"}

\* C5 (SpecExec), the claim as stated: a leg's result has success = true
\* only if the venue filled the order, on Backpack and on Lighter.
C5_Claim ==
    /\ bp_result = "OK" => bp_resp = "FILLED"
    /\ lt_result = "OK" => (lt_resp = "ACCEPTED" /\ lt_fill = "FILLED")

\* C6 (SpecExec): within one execution each venue's order-submission call
\* is issued once: never twice, and exactly once by the time the leg is
\* past it, whatever the venue answered.
C6_OneSubmissionPerLeg ==
    /\ Len(bp_orders) <= 1 /\ Len(lt_orders) <= 1
    /\ bp_leg = "done" => Len(bp_orders) = 1
    /\ lt_leg \in {"sleep", "done"} => Len(lt_orders) = 1
    /\ Finished => (Len(bp_orders) = 1 /\ Len(lt_orders) = 1)

C6_Witness ==
    /\ Finished /\ outcome = "BOTH_FAILED"
    /\ bp_resp = "ERROR" /\ lt_resp = "RAISE"
    /\ Len(bp_orders) = 1 /\ Len(lt_orders) = 1

\* C7 (SpecExec): LONG_BACKPACK sends a buy (Bid) to Backpack and a sell
\* (ask) to Lighter and on joint success adds the quantity to Backpack's
\* cached position and subtracts it from Lighter's; SHORT_BACKPACK does the
\* opposite; each ledger delta is positive exactly when that venue was sent
\* a buy.
C7_SidesAndDeltasFollowDirection ==
    /\ direction = "LONG_BACKPACK" =>
         /\ bp_side = "buy" /\ lt_side = "sell"
         /\ \A i \in 1..Len(bp_orders) : bp_orders[i] = "Bid"
         /\ \A i \in 1..Len(lt_orders) : lt_orders[i] = "ask"
    /\ direction = "SHORT_BACKPACK" =>
         /\ bp_side = "sell" /\ lt_side = "buy"
         /\ \A i \in 1..Len(bp_orders) : bp_orders[i] = "Ask"
         /\ \A i \in 1..Len(lt_orders) : lt_orders[i] = "bid"
    /\ (Finished /\ outcome = "BOTH_SUCCEEDED" /\ direction = "LONG_BACKPACK") =>
         /\ backpack_position = pre.bp + order_quantity
         /\ lighter_position = pre.lt - order_quantity
    /\ (Finished /\ outcome = "BOTH_SUCCEEDED" /\ direction = "SHORT_BACKPACK") =>
         /\ backpack_position = pre.bp - order_quantity
         /\ lighter_position = pre.lt + order_quantity
    /\ (Finished /\ outcome = "BOTH_SUCCEEDED") =>
         /\ (backpack_position > pre.bp) <=> (bp_orders = << "Bid" >>)
         /\ (lighter_position > pre.lt) <=> (lt_orders = << "bid" >>)

C7_Witness ==
    /\ Finished /\ outcome = "BOTH_SUCCEEDED" /\ direction = "SHORT_BACKPACK"
    /\ bp_orders = << "Ask" >> /\ lt_orders = << "bid" >>
    /\ backpack_position = pre.bp - order_quantity
    /\ lighter_position = pre.lt + order_quantity

\* C8 (SpecCoord): in every state any task can observe, the ledger's net
\* position is the one the startup refresh left, and each venue's cached
\* position is its refreshed value moved by the order quantity times the
\* difference between the jointly successful LONG and SHORT executions; so
\* as many successes in one direction as in the other restore both.
C8_NetPositionPreserved ==
    /\ backpack_position + lighter_position = pos0.bp + pos0.lt
    /\ backpack_position = pos0.bp + order_quantity * (n_long_ok - n_short_ok)
    /\ lighter_position = pos0.lt - order_quantity * (n_long_ok - n_short_ok)
    /\ n_long_ok = n_short_ok => (backpack_position = pos0.bp /\ lighter_position = pos0.lt)

C8_Witness ==
    /\ Finished /\ outcome = "BOTH_SUCCEEDED" /\ direction = "SHORT_BACKPACK"
    /\ n_long_ok = 1 /\ n_short_ok = 1
    /\ pre.bp = pos0.bp + order_quantity
    /\ backpack_position = pos0.bp /\ lighter_position = pos0.lt
    /\ pos0.bp + pos0.lt # 0

\* C9 (Spec): once the manager holds both quotes, the spreads of the tick
\* are Lighter bid - Backpack ask and Backpack bid - Lighter ask, and the
\* signal is LONG exactly when the long spread is strictly above its
\* threshold, SHORT exactly when it is not LONG and the short spread is
\* strictly above its threshold, NONE otherwise; a spread equal to its
\* threshold does not trigger.
C9_SignalStrictThreshold ==
    is_ready(obm) =>
      LET ls == Val(obm.lighter_best_bid) - Val(obm.backpack_best_ask)
          ss == Val(obm.backpack_best_bid) - Val(obm.lighter_best_ask)
      IN /\ long_spread = Some(ls) /\ short_spread = Some(ss)
         /\ (signal = "LONG_BACKPACK") <=> (ls > long_threshold)
         /\ (signal = "SHORT_BACKPACK") <=> (~(ls > long_threshold) /\ ss > short_threshold)
         /\ (signal = "NONE") <=> (~(ls > long_threshold) /\ ~(ss > short_threshold))
         /\ ls = long_threshold => signal # "LONG_BACKPACK"
         /\ ss = short_threshold => signal # "SHORT_BACKPACK"

C9_Witness ==
    /\ is_ready(obm)
    /\ long_threshold = 1 /\ long_spread = Some(1)
    /\ short_spread = Some(0 - 1)
    /\ signal = "NONE"

\* C10 (Spec): a tick invokes at most one execution, at most one execution
\* is awaited at any time (the loop is suspended in it), and when both
\* spreads are strictly above their thresholds the signal is LONG.
C10_OneExecutionLongFirst ==
    /\ tick_execs <= 1
    /\ total_trades - pre.total <= 1
    /\ in_flight <= 1
    /\ (in_flight = 1) <=> (pc = "gather")
    /\ (is_ready(obm) /\ Val(long_spread) > long_threshold
                      /\ Val(short_spread) > short_threshold)
         => signal = "LONG_BACKPACK"

C10_Witness ==
    /\ pc = "gather" /\ in_flight = 1 /\ total_trades = 2
    /\ is_ready(obm)
    /\ Val(long_spread) > long_threshold
    /\ Val(short_spread) > short_threshold
    /\ signal = "LONG_BACKPACK" /\ direction = "LONG_BACKPACK"


\* C11 (SpecQuote): a manager to which either venue has not delivered a
\* complete bid/ask pair answers get_spread with (None, None), never with
\* zeros, and a tick that finds the manager not ready, or a spread absent,
\* invokes no execution: an execution is only ever awaited, and counted,
\* with the manager ready and both spreads of the tick present.
C11_NoSpreadNoExecution ==
    /\ ~is_ready(obm) =>
         /\ get_spread(obm) = << None, None >>
         /\ long_spread = None /\ short_spread = None
         /\ tick_execs = 0 /\ total_trades = 0 /\ pc # "gather"
    /\ (long_spread = None \/ short_spread = None) =>
         (tick_execs = 0 /\ total_trades = 0 /\ pc # "gather")
    /\ (pc = "gather" \/ tick_execs > 0) =>
         /\ is_ready(obm)
         /\ long_spread # None /\ short_spread # None

\* a tick has copied Lighter's pair and skipped Backpack's incomplete one
C11_Witness ==
    /\ obm.lighter_ready /\ ~obm.backpack_ready
    /\ ~Truthy(bp_ws.best_bid)
    /\ get_spread(obm) = << None, None >>
    /\ pc = "tick" /\ total_trades = 0


\* the Backpack position a trade of the direction asked would leave
PostTrade ==
    IF can_trade_call.dir = "LONG_BACKPACK"
    THEN can_trade_call.pos + order_quantity
    ELSE can_trade_call.pos - order_quantity

\* C12 (SpecLimit), the claim as stated: _can_trade answers true for every
\* direction when max_position is zero, and otherwise, whatever the sign of
\* the cached Backpack position, exactly when the absolute value of the
\* post-trade Backpack position is at most max_position.
C12_Claim ==
    can_trade_call.dir # "NONE" =>
      (can_trade_call.ok <=> (max_position = 0 \/ Abs(PostTrade) <= max_position))

\* C13 (SpecLimit), the claim as stated: with a positive max_position and
\* both refreshed positions within it, the absolute cached position of
\* Backpack and of Lighter never exceeds max_position.
C13_Claim ==
    (max_position > 0 /\ Abs(pos0.bp) <= max_position /\ Abs(pos0.lt) <= max_position)
      => (Abs(backpack_position) <= max_position /\ Abs(lighter_position) <= max_position)

QueryDone == query.state \in {"returned", "raised"}
Invocations == Len(query.outcomes)
AllRetryable == \A i \in 1..Invocations : query.outcomes[i] = "RETRYABLE"

\* C14 (SpecQuery): the wrapped query is never invoked more than
\* max_attempts times; when every invocation failed with a retryable error
\* the call ends after exactly max_attempts invocations by returning the
\* default, without raising; an invocation that succeeds is the last one,
\* so a first success at attempt k means exactly k invocations, and its
\* value is what the caller gets.
C14_AttemptsThenDefault ==
    /\ Invocations <= query.max_attempts
    /\ (QueryDone /\ AllRetryable) =>
         /\ Invocations = query.max_attempts
         /\ query.state = "returned" /\ query.result = "DEFAULT"
    /\ query.result = "DEFAULT" =>
         (Invocations = query.max_attempts /\ AllRetryable)
    /\ \A k \in 1..Invocations :
         query.outcomes[k] = "OK" =>
           /\ k = Invocations
           /\ query.state = "returned" /\ query.result = "VALUE"
    /\ query.result = "VALUE" => query.outcomes[Invocations] = "OK"

C14_Witness ==
    /\ query.max_attempts = DefaultMaxAttempts
    /\ Invocations = 5 /\ AllRetryable
    /\ query.sleeps = 4
    /\ query.state = "returned" /\ query.result = "DEFAULT"

\* C15 (SpecQuery): only an invocation that failed with a retryable error
\* is followed by a sleep and another invocation; an error of another kind
\* ends the call at once by reaching the caller, with no default in its
\* place: raised by the first invocation, it leaves exactly one invocation
\* and no sleep.
C15_OtherErrorsPropagate ==
    /\ query.state = "sleep" => query.outcomes[Invocations] = "RETRYABLE"
    /\ query.sleeps = Cardinality({i \in 1..Invocations :
                                     query.outcomes[i] = "RETRYABLE"
                                     /\ i < query.max_attempts})
    /\ \A k \in 1..Invocations :
         query.outcomes[k] = "OTHER" =>
           /\ k = Invocations
           /\ query.state = "raised" /\ query.result = "OTHER"
           /\ query.sleeps = k - 1
    /\ (Invocations >= 1 /\ query.outcomes[1] = "OTHER") =>
         (Invocations = 1 /\ query.sleeps = 0 /\ query.state = "raised")

C15_Witness ==
    /\ query.outcomes = << "OTHER" >>
    /\ query.max_attempts = DefaultMaxAttempts
    /\ query.state = "raised" /\ query.result = "OTHER"
    /\ query.sleeps = 0

\* C16 (SpecQuery), the claim as stated: once every attempt has failed with
\* a retryable error, the call returns the default when reraise is false
\* and raises the last error when reraise is true.
C16_Claim ==
    (QueryDone /\ AllRetryable) =>
      IF query.reraise
      THEN query.state = "raised" /\ query.result = "RETRYABLE"
      ELSE query.state = "returned" /\ query.result = "DEFAULT"

RECURSIVE Pow2(_)
Pow2(n) == IF n = 0 THEN 1 ELSE 2 * Pow2(n - 1)

\* the sleeps the claim prescribes after n consecutive failures
BackoffSchedule(f) ==
    /\ Len(f.sleeps) = f.fails
    /\ \A i \in 1..Len(f.sleeps) :
         f.sleeps[i] = IF Pow2(i - 1) < MaxReconnectDelay THEN Pow2(i - 1)
                       ELSE MaxReconnectDelay

\* C17 (SpecFeed), the claim as stated: in each feed that was not shut
\* down, every failure since the last established connection, or since
\* the task started, has been followed by a sleep, and the i-th of these
\* sleeps lasts min(2^(i-1), 30) seconds.
C17_Claim ==
    /\ ~bp_feed.shut => BackoffSchedule(bp_feed)
    /\ ~lt_feed.shut => BackoffSchedule(lt_feed)

\* what the claim requires of a feed once disconnect() was called on it
StaysDown(f) ==
    f.shut => (~f.running /\ f.ws # "open" /\ f.late_attempts = 0)

\* C18 (SpecFeed), the claim as stated: after disconnect() a feed has no
\* open connection, begins no connection attempt and is not running again,
\* and its task has ended when the process is over.
C18_Claim ==
    /\ StaysDown(bp_feed) /\ StaysDown(lt_feed)
    /\ pc = "exited" => (bp_feed.pc = "cancelled" /\ lt_feed.pc = "cancelled")

\* C19 (SpecFeedFair): while a feed is not shut down its task never ends,
\* whatever connection, decode or processing errors it met, and a feed
\* that is sleeping after a failure goes on to another connection attempt
\* (unless it is shut down first); none of this moves the main task, which
\* leaves its loop only on stop_flag.
C19_FeedsSurviveErrors ==
    /\ [](~bp_feed.shut => bp_feed.pc # "cancelled")
    /\ [](~lt_feed.shut => lt_feed.pc # "cancelled")
    /\ [](pc # "tick" => stop_flag)
    /\ (bp_feed.pc = "sleep" /\ ~bp_feed.shut) ~> (bp_feed.pc = "connect" \/ bp_feed.shut)
    /\ (lt_feed.pc = "sleep" /\ ~lt_feed.shut) ~> (lt_feed.pc = "connect" \/ lt_feed.shut)

\* both feeds are attempting to connect again, Backpack after two
\* failures in a row and Lighter after a message that failed to decode
C19_Witness ==
    /\ ~bp_feed.shut /\ ~lt_feed.shut /\ pc = "tick"
    /\ bp_feed.pc = "connect" /\ bp_feed.fails = 2 /\ bp_feed.sleeps = << 1, 2 >>
    /\ lt_feed.pc = "connect" /\ lt_feed.last = "BAD" /\ lt_feed.sleeps = << 1 >>

\* what the claim requires after a message that could not be handled
BadMessageDroppedAlone(f) ==
    f.last = "BAD" => (f.pc = "listen" /\ f.ws = "open")

\* C20 (SpecFeed), the claim as stated: in both feeds, after a message
\* that failed to decode or whose handling raised, the feed is still
\* listening on the same open connection.
C20_Claim ==
    /\ ~bp_feed.shut => BadMessageDroppedAlone(bp_feed)
    /\ ~lt_feed.shut => BadMessageDroppedAlone(lt_feed)


\* A feed whose account subscription failed streams on, on the connection
\* where it failed (or was cancelled with the process).
StreamsUnauthenticated(f) == f.auth = "FAILED" => f.pc \in {"listen", "cancelled"}

\* C21 (SpecFeed), the claim as stated: on both venues, a failure to
\* authenticate or subscribe the account's order-update channel leaves the
\* feed streaming order-book data on that connection, without a reconnect.
C21_Claim ==
    /\ StreamsUnauthenticated(bp_feed)
    /\ StreamsUnauthenticated(lt_feed)


(***************************************************************************)
(* The two order-book handlers, message by message.                        *)
(***************************************************************************)
\* BackpackWebSocketManager._handle_orderbook_update for one depth message.
BpBookMessage(bids, asks) ==
    /\ bp_ws' = BackpackBookUpdate(bp_ws, bids, asks)
    /\ last_update' = [venue |-> "backpack", bid |-> bids # {}, ask |-> asks # {},
                       before |-> << bp_ws.best_bid, bp_ws.best_ask >>,
                       pair |-> << IF bids # {} THEN Some(SetMax(bids)) ELSE None,
                                   IF asks # {} THEN Some(SetMin(asks)) ELSE None >>,
                       zero |-> << {}, {} >>, snapshot |-> FALSE, alone |-> NoDepth]
    /\ UNCHANGED << svc_vars, run, lt_book, bp_depth, cfg_vars, count_vars, tick_vars, lt_ws,
                    ledger_vars, exec_vars, venue_vars, hist_vars, stop_flag, pc >>

\* LighterWebSocketManager._handle_message for "subscribed/order_book".
LtSnapshotMessage(bids, asks) ==
    /\ lt_book' = LighterSnapshot(lt_book, bids, asks)
    /\ lt_book' # lt_book
    /\ last_update' =
         [venue |-> "lighter", bid |-> FALSE, ask |-> FALSE,
          before |-> << lt_ws.best_bid, lt_ws.best_ask >>, pair |-> << None, None >>,
          zero |-> << ZeroPrices(bids), ZeroPrices(asks) >>, snapshot |-> TRUE,
          alone |-> [bids |-> UpdateOrderBook(EmptySide, bids),
                     asks |-> UpdateOrderBook(EmptySide, asks)]]
    /\ UNCHANGED << svc_vars, run, bp_depth, cfg_vars, count_vars, tick_vars,
                    feed_vars, ledger_vars, exec_vars, venue_vars, hist_vars,
                    stop_flag, pc >>

\* LighterWebSocketManager._handle_message for "update/order_book", once
\* the snapshot is loaded (before that the message changes nothing).
LtBookMessage(bids, asks) ==
    /\ lt_book.snapshot_loaded
    /\ lt_book' = LighterBookAfterUpdate(lt_book, bids, asks)
    /\ lt_ws' = LighterQuoteAfterUpdate(lt_ws, lt_book, bids, asks)
    /\ LET best == GetBestLevels(LighterBookAfterUpdate(lt_book, bids, asks))
       IN last_update' = [venue |-> "lighter", bid |-> Truthy(best[1]),
                          ask |-> Truthy(best[2]),
                          before |-> << lt_ws.best_bid, lt_ws.best_ask >>,
                          pair |-> best,
                          zero |-> << ZeroPrices(bids), ZeroPrices(asks) >>,
                          snapshot |-> FALSE, alone |-> NoDepth]
    /\ UNCHANGED << svc_vars, run, bp_depth, cfg_vars, count_vars, tick_vars, bp_ws,
                    ledger_vars, exec_vars, venue_vars, hist_vars, stop_flag, pc >>

\* Both feeds streaming, nothing received yet.
InitBook ==
    /\ order_quantity = 1
    /\ long_threshold = 0 /\ short_threshold = 0
    /\ max_position = 0
    /\ backpack_position = 0 /\ lighter_position = 0
    /\ bp_ws = [best_bid |-> None, best_ask |-> None, order_book_ready |-> FALSE]
    /\ lt_ws = [best_bid |-> None, best_ask |-> None, order_book_ready |-> FALSE]
    /\ InitState /\ QueryIdle /\ FeedsStreaming

\* The Lighter messages delivered: at most one level, on one side.
LevelMessages == {m \in LevelLists \X LevelLists : m[1] = << >> \/ m[2] = << >>}

NextBook ==
    \/ \E bids \in DepthSides, asks \in DepthSides : BpBookMessage(bids, asks)
    \/ \E m \in LevelMessages : LtSnapshotMessage(m[1], m[2])
    \/ \E m \in LevelMessages : LtBookMessage(m[1], m[2])

SpecBook == InitBook /\ [][NextBook]_vars

\* The pair a venue's feed exposes.
Exposed(w) == << w.best_bid, w.best_ask >>

\* C22 (SpecBook), the claim as stated: in each feed, an order-book update
\* that does not yield both a bid and an ask leaves the exposed best bid and
\* best ask as they were.
C22_Claim ==
    /\ last_update.venue = "backpack" /\ ~(last_update.bid /\ last_update.ask)
         => Exposed(bp_ws) = last_update.before
    /\ last_update.venue = "lighter" /\ ~(last_update.bid /\ last_update.ask)
         => Exposed(lt_ws) = last_update.before


(***************************************************************************)
(* The whole run: trading_loop from its first statement, the loop, the     *)
(* finally clause of run(), the return of main().                          *)
(***************************************************************************)
\* No ws_manager.connect() task exists before the client's connect().
AbsentFeed == [NewFeed EXCEPT !.pc = "absent"]

\* How _initialize_clients ends: it returns, or one of its four steps
\* raises (a constructor or a connect(), Backpack's first).
InitOutcomes == {"OK", "BP_INIT", "BP_CONNECT", "LT_INIT", "LT_CONNECT"}

\* The clients constructed when _initialize_clients ends that way.
ClientsAfter(out) ==
    IF out = "BP_INIT" THEN 0
    ELSE IF out \in {"BP_CONNECT", "LT_INIT"} THEN 1
    ELSE 2

\* trading_loop: _initialize_clients().  Each client's connect() creates
\* its feed task as its last step before a sleep.
InitializeClients(out) ==
    /\ pc = "init"
    /\ bp_feed' = IF out \in {"OK", "LT_INIT", "LT_CONNECT"} THEN NewFeed ELSE bp_feed
    /\ lt_feed' = IF out = "OK" THEN NewFeed ELSE lt_feed
    /\ IF out = "OK"
       THEN /\ run' = Entered([run EXCEPT !.clients = 2], "WaitingForFeeds")
            /\ pc' = "wait"
       ELSE /\ run' = [run EXCEPT !.clients = ClientsAfter(out),
                                  !.startup = "INIT_FAILED"]
            /\ pc' = "done"
    /\ UNCHANGED << loop_vars, lt_book, bp_depth, last_update, stop_flag >>

\* A waiter that takes a timeout or a stop request for readiness.
WaitIgnoresFailure(stop, timed_out, bp_ready, lt_ready) ==
    IF stop \/ timed_out \/ (bp_ready /\ lt_ready) THEN "READY" ELSE "SLEEP"

\* _wait_for_order_books, one evaluation of the while condition and body:
\* False once the timeout has passed or stop_flag is set, True when both
\* feeds are ready, else another sleep of 0.5 s.
WaitForOrderBooks(stop, timed_out, bp_ready, lt_ready) ==
    IF stop \/ timed_out THEN "FAILED"
    ELSE IF bp_ready /\ lt_ready THEN "READY"
    ELSE "SLEEP"

\* trading_loop: the wait returns.  On False the loop logs and returns.
WaitReturns(timed_out) ==
    /\ pc = "wait"
    /\ LET res == WaitForOrderBooks(stop_flag, timed_out, bp_ws.order_book_ready,
                                    lt_ws.order_book_ready)
       IN /\ res # "SLEEP"
          /\ IF res = "READY"
             THEN /\ run' = [run EXCEPT !.feeds_ready = bp_ws.order_book_ready
                                                        /\ lt_ws.order_book_ready]
                  /\ pc' = "refresh"
             ELSE /\ run' = [run EXCEPT !.startup = "WAIT_FAILED"]
                  /\ pc' = "done"
    /\ UNCHANGED << loop_vars, lt_book, bp_depth, last_update, bp_feed, lt_feed, stop_flag >>

\* PositionTracker.refresh_positions: each position read replaces the
\* cached one, a read that failed leaves it; then the while loop is entered.
RefreshPositions(bp_ok, lt_ok) ==
    /\ pc = "refresh"
    /\ backpack_position' = IF bp_ok THEN venue_position.bp ELSE backpack_position
    /\ lighter_position' = IF lt_ok THEN venue_position.lt ELSE lighter_position
    /\ run' = Entered([run EXCEPT !.refreshed = TRUE, !.startup = "OK"], "Trading")
    /\ pc' = "tick"
    /\ UNCHANGED << svc_vars, lt_book, bp_depth, last_update, cfg_vars, count_vars, tick_vars,
                    feed_vars, exec_vars, venue_vars, hist_vars, stop_flag >>

\* A depth message reaches the Backpack feed while it listens.
BpQuote(bids, asks) ==
    /\ bp_feed.pc = "listen" /\ bp_feed.ws = "open"
    /\ BpDepth(bids, asks)

\* An order-book message reaches the Lighter feed while it listens.
LtQuote(snapshot, bids, asks) ==
    /\ lt_feed.pc = "listen" /\ lt_feed.ws = "open"
    /\ IF snapshot THEN LtSnapshotMessage(bids, asks) ELSE LtBookMessage(bids, asks)

\* The messages of a run: Backpack quotes 1 / 1, Lighter 2 / 2.
RunDepthSides == {{}, {1}}
RunLevelMessages ==
    { << << >>, << >> >>,
      << << [price |-> MaxPrice, size |-> "DEEP"] >>, << >> >>,
      << << >>, << [price |-> MaxPrice, size |-> "DEEP"] >> >> }

InitRun ==
    /\ order_quantity = 1
    /\ long_threshold = 0 /\ short_threshold = 0
    /\ max_position = 0
    /\ backpack_position = 0 /\ lighter_position = 0
    /\ bp_ws = [best_bid |-> None, best_ask |-> None, order_book_ready |-> FALSE]
    /\ lt_ws = [best_bid |-> None, best_ask |-> None, order_book_ready |-> FALSE]
    /\ pc = "init"
    /\ run = NewRun
    /\ InitBase /\ QueryIdle
    /\ bp_feed = AbsentFeed /\ lt_feed = AbsentFeed

NextRun ==
    \/ \E out \in InitOutcomes : InitializeClients(out)
    \/ BpConnect(TRUE)
    \/ BpSubscribe("OK")
    \/ LtConnect(TRUE)
    \/ \E out \in {"OK", "ORDERS_FAILED"} : LtSubscribe(out)
    \/ \E bids \in RunDepthSides, asks \in RunDepthSides : BpQuote(bids, asks)
    \/ \E snapshot \in BOOLEAN, m \in RunLevelMessages : LtQuote(snapshot, m[1], m[2])
    \/ \E timed_out \in BOOLEAN : WaitReturns(timed_out)
    \/ \E bp_ok \in BOOLEAN, lt_ok \in BOOLEAN : RefreshPositions(bp_ok, lt_ok)
    \/ Tick
    \/ TickSignalled
    \/ \E copied \in BOOLEAN : TickRaises(copied)
    \/ Shutdown
    \/ LoopExit
    \/ \E rb \in {"OK", "FAIL"}, rl \in {"OK", "FAIL"} : GatherReturns(rb, rl)
    \/ ExecFinish
    \/ BpDisconnect
    \/ LtDisconnect
    \/ CleanupTimeout
    \/ ProcessExit

SpecRun == InitRun /\ [][NextRun]_vars

(***************************************************************************)
(* The trading loop while the feeds lose and regain their connections.     *)
(***************************************************************************)
InitOutage ==
    /\ order_quantity = 1
    /\ long_threshold = 0 /\ short_threshold = 0
    /\ max_position = 0
    /\ backpack_position = 0 /\ lighter_position = 0
    /\ bp_ws = [best_bid |-> Some(1), best_ask |-> Some(1), order_book_ready |-> TRUE]
    /\ lt_ws = [best_bid |-> Some(MaxPrice), best_ask |-> Some(1),
                order_book_ready |-> TRUE]
    /\ InitState /\ QueryIdle /\ FeedsStreaming

\* A feed loses its connection and reconnects.
BpOutage ==
    \/ BpListenEnds
    \/ BpWake
    \/ BpConnect(TRUE)
    \/ BpSubscribe("OK")

LtOutage ==
    \/ LtListenEnds
    \/ LtFeedWake
    \/ LtConnect(TRUE)
    \/ LtSubscribe("OK")

\* The loop with its errors and its stop request, on the quotes it
\* started with.
NextLoop ==
    \/ Tick
    \/ \E copied \in BOOLEAN : TickRaises(copied)
    \/ Shutdown
    \/ LoopExit
    \/ \E rb \in {"OK", "FAIL"}, rl \in {"OK", "FAIL"} : GatherReturns(rb, rl)
    \/ ExecFinish
    \/ BpOutage
    \/ LtOutage

SpecLoop == InitOutage /\ [][NextLoop]_vars

\* The loop on the quotes Backpack's feed delivers while it listens.
NextOutage ==
    \/ Tick
    \/ \E rb \in {"OK", "FAIL"}, rl \in {"OK", "FAIL"} : GatherReturns(rb, rl)
    \/ ExecFinish
    \/ \E bids \in DepthSides, asks \in DepthSides : BpQuote(bids, asks)
    \/ BpOutage

SpecOutage == InitOutage /\ [][NextOutage]_vars


(***************************************************************************)
(* Properties of the run.                                                  *)
(***************************************************************************)
PhaseOrder == << "Initializing", "WaitingForFeeds", "Trading", "ShuttingDown" >>

PhaseIndex(phase) == CHOOSE i \in DOMAIN PhaseOrder : PhaseOrder[i] = phase

\* The phases entered so far are phases of the state machine, start with
\* Initializing and follow its order, none entered twice.
PhasesInOrder(r) ==
    /\ Len(r.phases) >= 1 /\ r.phases[1] = "Initializing"
    /\ \A i \in DOMAIN r.phases : \E j \in DOMAIN PhaseOrder : r.phases[i] = PhaseOrder[j]
    /\ \A i, j \in DOMAIN r.phases :
         i < j => PhaseIndex(r.phases[i]) < PhaseIndex(r.phases[j])

InPhase(r, phase) == \E i \in DOMAIN r.phases : r.phases[i] = phase

\* No order was placed and no execution invoked.
NothingTraded ==
    /\ total_trades = 0 /\ in_flight = 0
    /\ bp_orders = << >> /\ lt_orders = << >>
    /\ pc # "gather"

\* C23 (SpecRun): the phases are passed in the order Initializing,
\* WaitingForFeeds, Trading, ShuttingDown; Trading is entered only after
\* both feeds were seen ready and the startup refresh returned; outside
\* Trading nothing is traded, and when the initialization raised or the
\* readiness wait failed, Trading is never entered and nothing is ever traded.
C23_StartupGatesTrading ==
    /\ PhasesInOrder(run)
    /\ InPhase(run, "Trading") => run.feeds_ready /\ run.refreshed
    /\ ~InPhase(run, "Trading") => NothingTraded
    /\ run.startup \in {"INIT_FAILED", "WAIT_FAILED"} =>
         ~InPhase(run, "Trading") /\ NothingTraded

\* The readiness wait failed, and the run went on to shut down and exit
\* without trading.
C23_Witness ==
    /\ run.startup = "WAIT_FAILED"
    /\ run.phases = << "Initializing", "WaitingForFeeds", "ShuttingDown" >>
    /\ pc = "exited"


\* The order calls of an execution return, _execute_arbitrage finishes, and
\* the loop's test of stop_flag is evaluated.
SpecRunFair ==
    /\ SpecRun
    /\ WF_vars(\E rb \in {"OK", "FAIL"}, rl \in {"OK", "FAIL"} : GatherReturns(rb, rl))
    /\ WF_vars(ExecFinish)
    /\ WF_vars(LoopExit)

\* The main task is inside the while loop of trading_loop.
InLoop == pc \in {"tick", "gather"}

\* C24 (SpecRunFair): stop_flag, once set, stays set; at most one execution
\* starts after it was set; and the trading loop is then left.
C24_StopEndsLoop ==
    /\ [][stop_flag => stop_flag']_vars
    /\ [](stop_flag => total_trades <= run.trades_at_stop + 1)
    /\ (stop_flag /\ InLoop) ~> ~InLoop

\* A signal arrived after the loop's test, the tick went on to invoke an
\* execution, and the loop ended at its next test.
C24_Witness ==
    /\ stop_flag /\ run.signalled
    /\ total_trades = run.trades_at_stop + 1
    /\ InPhase(run, "Trading") /\ pc = "done"


C26_LoopSurvivesErrors ==
    /\ ~InLoop => stop_flag
    /\ total_trades = successful_trades + failed_trades + in_flight
    /\ in_flight = (IF pc = "gather" THEN 1 ELSE 0)

\* A tick raised, a later execution failed, the Backpack feed is down, and
\* the loop is at its next tick without a stop request.
C26_Witness ==
    /\ run.tick_errors > 0 /\ failed_trades > 0
    /\ bp_feed.pc = "sleep"
    /\ pc = "tick" /\ ~stop_flag

\* C27 (SpecRun), the claim as stated: the process exits with code 1 if
\* SIGINT was delivered while the bot was running, and with code 0 otherwise.
C27_Claim ==
    pc = "exited" => run.exit_code = (IF run.signalled THEN 1 ELSE 0)


(***************************************************************************)
(* Properties of the dispatch of a tick under a position limit.            *)
(***************************************************************************)
\* A spread of the last tick strictly exceeds its threshold.
LongExceeds == Truthy(long_spread) /\ Val(long_spread) > long_threshold
ShortExceeds == Truthy(short_spread) /\ Val(short_spread) > short_threshold

\* _can_trade for a direction, on the position the last tick read.
PermittedAtTick(d) == can_trade(d, max_position, can_trade_call.pos, order_quantity)

\* The direction for which the last tick invoked the coordinator.
InvokedInTick == IF pc = "gather" THEN direction ELSE "NONE"

\* C28 (SpecLimit), the claim as stated: right after a tick, each direction
\* whose spread exceeded its threshold and which _can_trade permits was
\* invoked, unless the other direction was; so with both thresholds
\* exceeded, long blocked by the cap and short permitted, SHORT was invoked.
C28_Claim ==
    (tick_execs = 1 => pc = "gather") =>
      /\ LongExceeds /\ PermittedAtTick("LONG_BACKPACK") => InvokedInTick \in Directions
      /\ ShortExceeds /\ PermittedAtTick("SHORT_BACKPACK") => InvokedInTick \in Directions

\* C28 amended (SpecLimit): a tick invokes the coordinator for the
\* signalled direction alone, long taking precedence, and exactly when
\* _can_trade permits that direction; when both thresholds are exceeded and
\* long is blocked by the cap, nothing is invoked, short being permitted or
\* not.
C28_SignalledDirectionOnly ==
    /\ signal = Signal(long_spread, short_spread, long_threshold, short_threshold)
    /\ signal # "NONE" => can_trade_call.dir = signal
                          /\ can_trade_call.ok = PermittedAtTick(signal)
    /\ tick_execs = (IF signal # "NONE" /\ can_trade_call.ok THEN 1 ELSE 0)
    /\ pc = "gather" => direction = signal /\ can_trade_call.ok
    /\ LongExceeds /\ ShortExceeds /\ ~PermittedAtTick("LONG_BACKPACK")
         => tick_execs = 0 /\ pc = "tick"

\* Both thresholds exceeded, long blocked by the cap, short permitted:
\* the tick invoked nothing.
C28_Witness ==
    /\ LongExceeds /\ ShortExceeds
    /\ max_position > 0
    /\ ~PermittedAtTick("LONG_BACKPACK") /\ PermittedAtTick("SHORT_BACKPACK")
    /\ signal = "LONG_BACKPACK" /\ tick_execs = 0 /\ pc = "tick"
    /\ total_trades = 0


\* The Backpack position the last tick read lies outside the cap.
OutsideCap == max_position > 0 /\ Abs(can_trade_call.pos) > max_position

\* The direction the last tick asked _can_trade about moves that position
\* toward zero.
TowardZero ==
    \/ can_trade_call.dir = "SHORT_BACKPACK" /\ can_trade_call.pos > 0
    \/ can_trade_call.dir = "LONG_BACKPACK" /\ can_trade_call.pos < 0

ManagerQuotes(o) ==
    << << o.backpack_best_bid, o.backpack_best_ask >>,
       << o.lighter_best_bid, o.lighter_best_ask >> >>

\* A feed task that is not streaming: it is between two connections.
Down(feed_pc) == feed_pc \in {"sleep", "connect", "subscribe"}

\* C30 (SpecOutage), the claim as stated: when a tick invokes an execution,
\* both feeds are streaming at that tick.
C30_Claim ==
    pc = "gather" => ~Down(run.tick_feeds[1]) /\ ~Down(run.tick_feeds[2])

\* C30 amended (SpecOutage): a tick that invokes an execution trades on the
\* pair each feed exposes at that tick, which is the last complete pair the
\* feed received while it streamed: a lost connection clears neither the
\* pair nor order_book_ready, and the tick does not look at the connection.
C30_TradesOnLastExposedPair ==
    /\ bp_ws.order_book_ready /\ lt_ws.order_book_ready
    /\ Truthy(bp_ws.best_bid) /\ Truthy(bp_ws.best_ask)
    /\ pc = "gather" =>
         /\ ManagerQuotes(obm) = run.tick_quotes
         /\ << long_spread, short_spread >> = get_spread(obm)
         /\ signal = direction

\* An execution invoked while the Backpack feed was waiting to reconnect,
\* on a quote the feed had received before it lost the connection.
C30_Witness ==
    /\ pc = "gather" /\ run.tick_feeds[1] = "sleep"
    /\ run.tick_quotes[1] # << Some(1), Some(1) >>
    /\ ManagerQuotes(obm) = run.tick_quotes


(***************************************************************************)
(* The feeds' handlers and the reader.  Each handler runs from the receipt *)
(* of its message to its await of the callback without an await in         *)
(* between, and _update_order_books has no await at all: each is one step. *)
(***************************************************************************)
\* Thresholds no spread of the model exceeds: the tick copies the quotes,
\* computes the spreads and invokes nothing.
InitRead ==
    /\ order_quantity = 1
    /\ long_threshold = MaxPrice /\ short_threshold = MaxPrice
    /\ max_position = 0
    /\ backpack_position = 0 /\ lighter_position = 0
    /\ bp_ws = [best_bid |-> None, best_ask |-> None, order_book_ready |-> FALSE]
    /\ lt_ws = [best_bid |-> None, best_ask |-> None, order_book_ready |-> FALSE]
    /\ InitState /\ QueryIdle /\ FeedsStreaming

\* Lighter messages with at most one level a side, of sufficient size: a bid
\* at the highest price, an ask at the lowest.
DeepBids == {<< >>, << [price |-> MaxPrice, size |-> "DEEP"] >>}
DeepAsks == {<< >>, << [price |-> 1, size |-> "DEEP"] >>}

NextRead ==
    \/ \E bids \in DepthSides, asks \in DepthSides : BpBookMessage(bids, asks)
    \/ \E bids \in DeepBids, asks \in DeepAsks : LtSnapshotMessage(bids, asks)
    \/ \E bids \in DeepBids, asks \in DeepAsks : LtBookMessage(bids, asks)
    \/ Tick

SpecRead == InitRead /\ [][NextRead]_vars

\* The pair a feed exposes is the one it exposed before update u with every
\* side u yielded replaced.
AppliedWhole(w, u) ==
    /\ w.best_bid = (IF u.bid THEN u.pair[1] ELSE u.before[1])
    /\ w.best_ask = (IF u.ask THEN u.pair[2] ELSE u.before[2])

\* order_book_ready is set in the step that stores the second side.
ReadyWithPair(w) == w.order_book_ready <=> (Truthy(w.best_bid) /\ Truthy(w.best_ask))

C32_BothLegsJoined ==
    /\ bp_leg = "idle" <=> lt_leg = "idle"
    /\ pc = "gather" => bp_leg # "idle" /\ lt_leg # "idle" /\ outcome = "NONE"
    /\ outcome # "NONE" =>
         /\ bp_leg = "done" /\ lt_leg = "done"
         /\ bp_result \in {"OK", "FAIL"} /\ lt_result \in {"OK", "FAIL"}
         /\ outcome = JointOutcome(LegSuccess(bp_result), LegSuccess(lt_result))
    /\ Finished /\ bp_result = "FAIL" => Len(lt_orders) = 1 /\ lt_resp # "NONE"
    /\ Finished /\ lt_result = "FAIL" => Len(bp_orders) = 1 /\ bp_resp # "NONE"

\* Backpack's order call raised; Lighter's order was submitted and accepted
\* all the same, and the execution was classified after both were over.
C32_Witness ==
    /\ Finished /\ outcome = "VENUE_A_FAILED"
    /\ bp_resp = "RAISE" /\ bp_result = "FAIL"
    /\ lt_resp = "ACCEPTED" /\ lt_result = "OK"
    /\ Len(bp_orders) = 1 /\ Len(lt_orders) = 1



(***************************************************************************)
(* The two feeds against the depth their streams describe.  Backpack's     *)
(* depth stream is incremental like Lighter's: a message lists the levels  *)
(* that changed, each with its new size, zero for a level that is gone.    *)
(***************************************************************************)
\* The best bid and ask of a depth: the highest bid and the lowest ask among
\* the levels that are there.
BestOfDepth(d) ==
    LET bids == {p \in Prices : d.bids[p] # "NONE"}
        asks == {p \in Prices : d.asks[p] # "NONE"}
    IN << IF bids # {} THEN Some(SetMax(bids)) ELSE None,
          IF asks # {} THEN Some(SetMin(asks)) ELSE None >>

\* BackpackWebSocketManager._handle_orderbook_update for a depth message
\* whose levels carry their sizes: the handler reads x[0], the price, of
\* every level and never x[1], the size.
BpLevelMessage(bids, asks) ==
    /\ bp_ws' = BackpackBookUpdate(bp_ws, LevelPrices(bids), LevelPrices(asks))
    /\ bp_depth' = [bids |-> UpdateOrderBook(bp_depth.bids, bids),
                    asks |-> UpdateOrderBook(bp_depth.asks, asks)]
    /\ last_update' =
         [venue |-> "backpack", bid |-> bids # << >>, ask |-> asks # << >>,
          before |-> << bp_ws.best_bid, bp_ws.best_ask >>,
          pair |-> << IF bids # << >> THEN Some(SetMax(LevelPrices(bids))) ELSE None,
                      IF asks # << >> THEN Some(SetMin(LevelPrices(asks))) ELSE None >>,
          zero |-> << ZeroPrices(bids), ZeroPrices(asks) >>,
          snapshot |-> FALSE, alone |-> NoDepth]
    /\ UNCHANGED << svc_vars, run, lt_book, cfg_vars, count_vars, tick_vars, lt_ws,
                    ledger_vars, exec_vars, venue_vars, hist_vars, stop_flag, pc >>

\* The messages delivered: at most one level, on one side; a bid level at
\* any price and of any size, an ask level at the highest price and of
\* sufficient size.
DepthMessages ==
    {m \in LevelMessages : m[2] \in {<< >>, << [price |-> MaxPrice, size |-> "DEEP"] >>}}

\* Backpack's: a level is there or gone.
BpLevelMessages ==
    {m \in DepthMessages : \A j \in DOMAIN m[1] : m[1][j].size # "THIN"}

NextDepth ==
    \/ \E m \in BpLevelMessages : BpLevelMessage(m[1], m[2])
    \/ \E m \in DepthMessages : LtSnapshotMessage(m[1], m[2])
    \/ \E m \in DepthMessages : LtBookMessage(m[1], m[2])

SpecDepth == InitBook /\ [][NextDepth]_vars

\* C33 (SpecDepth), the claim as stated: once an order-book update was
\* applied, Lighter's published best bid and ask are the highest bid and
\* the lowest ask among the levels of its local depth that pass the
\* liquidity filter, and Backpack's are the highest bid and the lowest ask
\* of the depth its stream describes.
C33_Claim ==
    /\ lt_book.snapshot_loaded => Exposed(lt_ws) = GetBestLevels(lt_book)
    /\ Exposed(bp_ws) = BestOfDepth(bp_depth)


\* A level that update u announced with size zero is published by w.
ZeroPublished(w, u) ==
    \/ \E p \in u.zero[1] : w.best_bid = Some(p)
    \/ \E p \in u.zero[2] : w.best_ask = Some(p)

\* C34 (SpecDepth), the claim as stated: after an incremental update, a
\* level the update carried with size zero is not in Lighter's local depth,
\* and in neither feed is its price the published best bid or best ask.
C34_Claim ==
    /\ last_update.venue = "lighter" /\ ~last_update.snapshot =>
         /\ \A p \in last_update.zero[1] : lt_book.bids[p] = "NONE"
         /\ \A p \in last_update.zero[2] : lt_book.asks[p] = "NONE"
         /\ ~ZeroPublished(lt_ws, last_update)
    /\ last_update.venue = "backpack" => ~ZeroPublished(bp_ws, last_update)


(***************************************************************************)
(* The feeds' quotes and readiness while the connections are lost and      *)
(* regained: order-book messages reach a feed that listens, and either     *)
(* feed can lose its connection and reconnect.                             *)
(***************************************************************************)
\* An "update/order_book" message reaches the Lighter feed before the
\* snapshot of its connection.
LtEarlyUpdate(bids, asks) ==
    /\ lt_feed.pc = "listen" /\ lt_feed.ws = "open"
    /\ ~lt_book.snapshot_loaded
    /\ lt_book' = LighterBookAfterUpdate(lt_book, bids, asks)
    /\ lt_ws' = LighterQuoteAfterUpdate(lt_ws, lt_book, bids, asks)
    /\ last_update' =
         [NoUpdate EXCEPT !.venue = "lighter",
                          !.before = << lt_ws.best_bid, lt_ws.best_ask >>,
                          !.alone = [bids |-> UpdateOrderBook(EmptySide, bids),
                                     asks |-> UpdateOrderBook(EmptySide, asks)]]
    /\ UNCHANGED << svc_vars, run, bp_depth, cfg_vars, count_vars, tick_vars, bp_ws,
                    ledger_vars, exec_vars, venue_vars, hist_vars, stop_flag, pc >>

NextReady ==
    \/ \E bids \in DepthSides, asks \in DepthSides : BpQuote(bids, asks)
    \/ \E bids \in DeepBids, asks \in DeepAsks : LtEarlyUpdate(bids, asks)
    \/ \E bids \in DeepBids, asks \in DeepAsks : LtQuote(TRUE, bids, asks)
    \/ \E bids \in DeepBids, asks \in DeepAsks : LtQuote(FALSE, bids, asks)
    \/ BpOutage
    \/ LtOutage

SpecReady == InitBook /\ [][NextReady]_vars

\* Lighter's local depth holds a level of sufficient size on both sides.
LighterDepthComplete ==
    /\ lt_book.snapshot_loaded
    /\ Truthy(GetBestLevels(lt_book)[1]) /\ Truthy(GetBestLevels(lt_book)[2])

\* order_book_ready, once set, stays set, whatever the feed does next.
ReadyNeverReverts ==
    [][/\ bp_ws.order_book_ready => bp_ws'.order_book_ready
       /\ lt_ws.order_book_ready => lt_ws'.order_book_ready]_vars

\* C35 (SpecReady): a feed's order_book_ready is false until the first
\* update, snapshot or delta, after which both the best bid and the best
\* ask are known, true from that update on, and never false again, across
\* disconnects and reconnects too.
C35_Claim ==
    /\ [](/\ ReadyWithPair(bp_ws)
          /\ ReadyWithPair(lt_ws)
          /\ LighterDepthComplete => lt_ws.order_book_ready)
    /\ ReadyNeverReverts


\* The levels Lighter's local depth holds.
LighterDepth == [bids |-> lt_book.bids, asks |-> lt_book.asks]

\* C36 (SpecReady): in the Lighter feed every connection attempt starts on
\* an empty local depth, an update message that arrives before the
\* connection's snapshot is not applied, and after a snapshot the depth
\* holds the snapshot's levels and no other.
C36_SnapshotStartsDepthAfresh ==
    /\ lt_feed.pc \in {"connect", "subscribe"} => lt_book = NewLighterBook
    /\ ~lt_book.snapshot_loaded => LighterDepth = NoDepth
    /\ last_update.venue = "lighter" /\ last_update.snapshot /\ lt_book.snapshot_loaded
         => LighterDepth = last_update.alone

\* A snapshot with an ask only arrived while the feed published a best bid
\* learned earlier: the depth holds the ask and no bid.
C36_Witness ==
    /\ last_update.venue = "lighter" /\ last_update.snapshot
    /\ lt_book.snapshot_loaded
    /\ Truthy(lt_ws.best_bid)
    /\ lt_book.bids = EmptySide /\ lt_book.asks # EmptySide

\* An update dropped because it came before the snapshot of a connection
\* that followed one on which the feed became ready.
EarlyUpdateDropped ==
    /\ last_update.venue = "lighter" /\ ~last_update.snapshot
    /\ last_update.alone # NoDepth
    /\ lt_book = NewLighterBook /\ lt_feed.pc = "listen"
    /\ lt_ws.order_book_ready


\* Feed f leaves its message loop for the reconnect sleep in this step.
ConnectionLost(f, g) == f.pc = "listen" /\ g.pc = "sleep"

\* C37 (SpecFeed): a feed that is connected and subscribed holds the
\* minimum reconnect delay, and the sleep it takes when that connection is
\* lost lasts InitialReconnectDelay seconds, whatever the delay had grown
\* to before the connection was made.
C37_DelayResetOnSuccess ==
    /\ [](/\ bp_feed.pc = "listen" => bp_feed.reconnect_delay = InitialReconnectDelay
          /\ lt_feed.pc = "listen" => lt_feed.reconnect_delay = InitialReconnectDelay)
    /\ [][/\ ConnectionLost(bp_feed, bp_feed')
               => bp_feed'.sleeps = << InitialReconnectDelay >>
          /\ ConnectionLost(lt_feed, lt_feed')
               => lt_feed'.sleeps = << InitialReconnectDelay >>]_vars

\* Both feeds sleep one second after losing a connection that was made on
\* an attempt begun with a longer delay: Backpack's after three failures,
\* Lighter's after two.
C37_Witness ==
    /\ bp_feed.pc = "sleep" /\ bp_feed.began = 8 /\ bp_feed.sleeps = << 1 >>
    /\ lt_feed.pc = "sleep" /\ lt_feed.began = 4 /\ lt_feed.sleeps = << 1 >>


\* C38 (SpecRun): when the process is over, disconnect() was called on the
\* client of each venue, whether Backpack's disconnect returned, raised or
\* did not return within the timeout, and the summary was logged.
C38_Claim ==
    pc = "exited" /\ run.clients = 2
        => /\ run.bp_disconnects = 1
           /\ run.lt_disconnects = 1
           /\ run.summaries = 1


(***************************************************************************)
(* PositionTracker.refresh_positions at startup: the two get_position      *)
(* calls, each under query_retry(default_return=Decimal('0')), and what    *)
(* the tracker stores once asyncio.gather has both results.                *)
(***************************************************************************)
Venues == {"bp", "lt"}

\* get_position is decorated with the default exception_type, (Exception,):
\* an invocation returns the position the venue reports, or raises an
\* exception that is retried.
PositionOutcomes == {"OK", "RETRYABLE"}

\* A position written whatever the query came to.
RefreshedPositionNoFallback(q, cached, held) ==
    IF q.state = "raised" THEN cached ELSE held

\* refresh_positions, one venue: an exception among gather's results leaves
\* the cached position, any other result replaces it; the result is the
\* position the venue holds or default_return, Decimal('0').
RefreshedPosition(q, cached, held) ==
    IF q.state = "raised" THEN cached
    ELSE IF q.result = "VALUE" THEN held ELSE 0

\* One invocation of a venue's get_position inside the retry loop.
PositionAttempt(v, out) ==
    /\ pc = "refresh"
    /\ run.position_query[v].state = "call"
    /\ run' = [run EXCEPT !.position_query[v] = AfterAttempt(@, out)]
    /\ UNCHANGED << loop_vars, lt_book, bp_depth, last_update, bp_feed, lt_feed,
                    stop_flag, pc >>

\* The wait between two attempts of a venue's query is over.
PositionWake(v) ==
    /\ pc = "refresh"
    /\ run.position_query[v].state = "sleep"
    /\ run' = [run EXCEPT !.position_query[v].state = "call"]
    /\ UNCHANGED << loop_vars, lt_book, bp_depth, last_update, bp_feed, lt_feed,
                    stop_flag, pc >>

\* gather has both results: the cache is written, refresh_positions
\* returns and trading_loop enters its while loop.
RefreshReturns ==
    /\ pc = "refresh"
    /\ \A v \in Venues : run.position_query[v].state \in {"returned", "raised"}
    /\ backpack_position' = RefreshedPosition(run.position_query.bp, backpack_position,
                                              venue_position.bp)
    /\ lighter_position' = RefreshedPosition(run.position_query.lt, lighter_position,
                                             venue_position.lt)
    /\ pos0' = [bp |-> backpack_position', lt |-> lighter_position']
    /\ run' = Entered([run EXCEPT !.refreshed = TRUE, !.startup = "OK"], "Trading")
    /\ pc' = "tick"
    /\ UNCHANGED << svc_vars, lt_book, bp_depth, last_update, cfg_vars, count_vars,
                    tick_vars, feed_vars, exec_vars, venue_vars, pre, outcome,
                    n_long_ok, n_short_ok, in_flight, stop_flag >>

\* Both feeds are ready, the cache holds its initial zeros, each venue
\* holds a position of its own, and both queries are about to be invoked.
InitRefresh ==
    /\ order_quantity = 1
    /\ long_threshold = 0 /\ short_threshold = 0
    /\ max_position = 0
    /\ backpack_position = 0 /\ lighter_position = 0
    /\ bp_ws = [best_bid |-> Some(1), best_ask |-> Some(1), order_book_ready |-> TRUE]
    /\ lt_ws = [best_bid |-> Some(1), best_ask |-> Some(1), order_book_ready |-> TRUE]
    /\ pc = "refresh"
    /\ run = [Entered([NewRun EXCEPT !.clients = 2, !.feeds_ready = TRUE],
                      "WaitingForFeeds")
                EXCEPT !.position_query =
                         [v \in Venues |-> NewQuery(DefaultMaxAttempts, FALSE)]]
    /\ InitUntraded
    /\ \E b \in RefreshedPositions, l \in InitPositions :
         venue_position = [bp |-> b, lt |-> l]
    /\ InitHistory
    /\ QueryIdle /\ FeedsStreaming

NextRefresh ==
    \/ \E v \in Venues, out \in PositionOutcomes : PositionAttempt(v, out)
    \/ \E v \in Venues : PositionWake(v)
    \/ RefreshReturns

SpecRefresh == InitRefresh /\ [][NextRefresh]_vars

\* A venue's query returned the position the venue reported.
Reported(q) == \E i \in DOMAIN q.outcomes : q.outcomes[i] = "OK"

\* C39 (SpecRefresh): once refresh_positions has returned, the cached
\* position of each venue is what that venue's get_position returned: the
\* position the venue holds if an attempt succeeded, zero if every attempt
\* failed; and this holds for each venue whatever the other's query did.
C39_CacheIsQueryResult ==
    pc = "tick" =>
        /\ backpack_position = (IF Reported(run.position_query.bp)
                                THEN venue_position.bp ELSE 0)
        /\ lighter_position = (IF Reported(run.position_query.lt)
                               THEN venue_position.lt ELSE 0)

\* Backpack's query failed five times and fell back to zero while the venue
\* holds a position; Lighter's, which succeeded at its third attempt, was
\* written to the cache all the same.
C39_Witness ==
    /\ pc = "tick"
    /\ run.position_query.bp.result = "DEFAULT"
    /\ Len(run.position_query.bp.outcomes) = DefaultMaxAttempts
    /\ venue_position.bp # 0 /\ backpack_position = 0
    /\ Len(run.position_query.lt.outcomes) = 3
    /\ venue_position.lt # 0 /\ lighter_position = venue_position.lt


(***************************************************************************)
(* Heartbeats: each venue sends "ping" messages among its order-book       *)
(* messages, and either feed can lose its connection and reconnect.        *)
(***************************************************************************)
NextPing ==
    \/ BpMessage("PING")
    \/ LtMessage("PING")
    \/ \E bids \in RunDepthSides, asks \in RunDepthSides : BpQuote(bids, asks)
    \/ \E snapshot \in BOOLEAN, m \in RunLevelMessages : LtQuote(snapshot, m[1], m[2])
    \/ BpOutage
    \/ LtOutage

SpecPing == InitBook /\ [][NextPing]_vars

\* Every "ping" feed f received on its connection was answered by a "pong".
PingsAnswered(f) == f.pongs = f.pings

\* C40 (SpecPing): each feed has sent one "pong" on its connection for
\* every "ping" message it has handled there, before it takes the next
\* message.  (A step that handles a "ping" leaves quotes, depth and
\* order_book_ready as they are: BpMessage and LtMessage change the feed
\* task's record only.)
C40_Claim ==
    /\ PingsAnswered(bp_feed)
    /\ PingsAnswered(lt_feed)

=============================================================================
